---- MODULE Spec2Model ----
(***************************************************************************)
(* Per-tenant WhatsApp session service: the registry of src/server.js and  *)
(* the two WhatsAppBot classes of src/whatsapp-bot-enhanced.js (the        *)
(* browser-automation class, lines 6-425, and the client-library class,    *)
(* lines 434-794).                                                         *)
(*                                                                         *)
(* Node runs one JavaScript job at a time, so the code between two awaits  *)
(* on real I/O is one atomic step.  An await on an async function that     *)
(* has no I/O of its own (notifyStatusChange, notifyQRCode, getQRCode)     *)
(* only yields to the microtask queue and is not a step boundary.  A       *)
(* promise's continuation runs in the microtask that follows its           *)
(* settlement, so the step that settles an adapter call also runs the      *)
(* code that awaited it, up to that code's next await on I/O.              *)
(*                                                                         *)
(* Code segments are operators from a state record s (one field per        *)
(* variable) to a state record; an action runs the segments of one job     *)
(* and commits the result.                                                 *)
(***************************************************************************)
EXTENDS Integers, Sequences, FiniteSets, TLC

\* ------------------------------------------------------------------ bounds
MaxBots == 2
MaxReqs == 2
MaxImmediates == 2
MaxRuns == 2
MaxTrace == 4
MaxQr == 2
MaxDom == 2
MaxDispatchQr == 1
MaxParts == 5

Users == {"u1", "u2"}
BotIds == 1..MaxBots
ReqIds == 1..MaxReqs
RunIds == 1..MaxRuns
NoBot == 0
NULL == <<>>

VARIABLES
  variant,       \* which WhatsAppBot class is deployed: "browser" or "client"
  whatsappBots,  \* server.js:30  Map userId -> bot (NoBot: no entry)
  bots,          \* every WhatsAppBot object constructed so far, by identity
  nbots,         \* number of WhatsAppBot objects constructed
  reqs,          \* HTTP handler invocations: position and locals
  immediates,    \* the setImmediate queue: callbacks not yet run
  runs,          \* message-intake invocations in flight
  trace,         \* history: dispatchLink calls and HTTP POSTs issued, in order
  sd,            \* the SIGTERM/SIGINT handler: its position and locals
  response       \* the HTTP response the last step sent (NoResponse: none)

vars == <<variant, whatsappBots, bots, nbots, reqs, immediates, runs, trace,
          sd, response>>

\* What a handler answered: its request, the bot it created, the bot it
\* tore down (old) and the outcome it saw of that teardown (td) and of the
\* initialization (init) it awaited, the HTTP status (res) and the status
\* and qrCode of a /start's 200.
NoResponse ==
  [kind |-> "none", userId |-> "none", bot |-> 0, old |-> 0, td |-> "none",
   init |-> "none", res |-> "none", status |-> "none", qrCode |-> NULL]

\* The SIGTERM/SIGINT handler (server.js 278-295; the sequential form of
\* 537-543): mode is the form that runs, pending the disconnects it awaits,
\* last the session its loop visited last.
NoShutdown == [pc |-> "idle", mode |-> "none", pending |-> {}, last |-> NoBot]

\* The mutable state as one record, for the code segments.  A step starts
\* with no response sent.
Cur ==
  [whatsappBots |-> whatsappBots, bots |-> bots, nbots |-> nbots,
   reqs |-> reqs, immediates |-> immediates, runs |-> runs, trace |-> trace,
   sd |-> sd, response |-> NoResponse]

\* process.exit(0), or the process brought down by an unhandled rejection:
\* no job runs any more.
ProcessRuns == sd.pc \notin {"exited", "crashed"}

Commit(s) ==
  /\ ProcessRuns
  /\ s.nbots <= MaxBots
  /\ Len(s.immediates) <= MaxImmediates
  /\ whatsappBots' = s.whatsappBots
  /\ bots' = s.bots
  /\ nbots' = s.nbots
  /\ reqs' = s.reqs
  /\ immediates' = s.immediates
  /\ runs' = s.runs
  /\ trace' = s.trace
  /\ sd' = s.sd
  /\ response' = s.response
  /\ Len(s.trace) <= MaxTrace
  /\ UNCHANGED variant

\* ------------------------------------------------------- WhatsAppBot object
\* A slot of bots that no constructor has filled yet.  Beside the fields of
\* the class: ipc, the adapter call initialize() awaits; adapter, token, dom,
\* what WhatsApp shows to this session; qrTasks, the toDataURL calls in
\* flight; hangs, the adapter no longer answers a close or destroy; tornDown,
\* a call of disconnect() on the session has resolved; loadFailed,
\* saveFailed, the catch of loadSession or of saveSession has run.
NoSession ==
  [userId |-> "none", webhookUrl |-> FALSE, callbackUrl |-> FALSE,
   connected |-> FALSE, status |-> "disconnected", processedMessages |-> {},
   qrCode |-> NULL, qrCodeDataURL |-> NULL,
   browser |-> "null", page |-> "null", client |-> "null",
   ipc |-> "idle", responseListener |-> FALSE,
   messageCheckInterval |-> FALSE,
   adapter |-> "off", token |-> 0, dom |-> <<>>, qrTasks |-> {},
   hangs |-> FALSE, tornDown |-> FALSE,
   loadFailed |-> FALSE, saveFailed |-> FALSE]

\* constructor(userId, options): both classes.  The client-library class
\* also creates its Client (no browser is launched before initialize).
NewBot(u, cfg) ==
  [NoSession EXCEPT !.userId = u,
                    !.webhookUrl = cfg.webhookUrl,
                    !.callbackUrl = cfg.callbackUrl,
                    !.client = IF variant = "client" THEN "created" ELSE "null"]

\* The adapter resources a session holds: a launched browser or page that
\* was not closed, a started client that was not destroyed.
HoldsResources(bot) ==
  \/ bot.browser = "open"
  \/ bot.page = "open"
  \/ bot.client = "started"

SetBot(s, b, bot) == [s EXCEPT !.bots[b] = bot]

\* notifyStatusChange(): with a callbackUrl, schedule the POST of the status
\* with setImmediate; the callback reads this.status when it runs.  The
\* fields status and qrCode of a scheduled callback are history: what the
\* session held at the call of setImmediate.  No callback reads them.
NotifyStatusChange(s, b) ==
  IF s.bots[b].callbackUrl
  THEN [s EXCEPT !.immediates =
          Append(@, [bot |-> b, type |-> "connection_status",
                     status |-> s.bots[b].status, qrCode |-> NULL])]
  ELSE s

\* notifyQRCode(): scheduled only with a callbackUrl and a stored challenge
\* (qrCode in the browser class, qrCodeDataURL in the client-library class).
StoredChallenge(bot) ==
  IF variant = "client" THEN bot.qrCodeDataURL ELSE bot.qrCode

NotifyQRCode(s, b) ==
  IF s.bots[b].callbackUrl /\ StoredChallenge(s.bots[b]) # NULL
  THEN [s EXCEPT !.immediates =
          Append(@, [bot |-> b, type |-> "qr_code",
                     status |-> "none", qrCode |-> StoredChallenge(s.bots[b])])]
  ELSE s

\* getQRCode(), getStatus(), isConnected(), hasQRCode()
GetQRCode(bot) == StoredChallenge(bot)
GetStatus(bot) == bot.status
IsConnected(bot) ==
  IF variant = "client" THEN bot.connected
  ELSE bot.connected /\ bot.browser = "open"
HasQRCode(bot) == StoredChallenge(bot) # NULL

\* ---------------------------------------------------------------- disconnect
\* disconnect() up to its first await on the adapter.
\*  browser class (400-416): the flags are reset and the poll timer cleared
\*    before anything is awaited;
\*  client-library class (775-781): client.destroy() is called first.
DisconnectCall(s, b) ==
  IF variant = "browser"
  THEN SetBot(s, b, [s.bots[b] EXCEPT !.connected = FALSE,
                                      !.status = "disconnected",
                                      !.messageCheckInterval = FALSE])
  ELSE s

\* Whether that call of disconnect() awaits the adapter: the browser class
\* closes only a page or browser it has, the client-library class always
\* awaits client.destroy().
DisconnectAwaits(s, b) ==
  IF variant = "browser"
  THEN s.bots[b].page # "null" \/ s.bots[b].browser # "null"
  ELSE TRUE

\* The rest of disconnect(), run when the adapter call settles.
\*  browser class (410-423): close errors are swallowed; the QR file is
\*    unlinked (out = "throw": unlinkSync fails, disconnect rejects) and the
\*    status notified;
\*  client-library class (783-792): out = "throw": destroy() failed, the
\*    catch logs it, no field is reset and disconnect resolves.
Closed(h) == IF h = "null" THEN "null" ELSE "closed"

DisconnectTail(s, b, out) ==
  IF variant = "browser"
  THEN LET s1 == SetBot(s, b, [s.bots[b] EXCEPT !.page = Closed(@),
                                                !.browser = Closed(@),
                                                !.adapter = "off"])
       IN  IF out = "throw" THEN s1
           ELSE NotifyStatusChange([s1 EXCEPT !.bots[b].tornDown = TRUE], b)
  ELSE IF out = "throw" THEN [s EXCEPT !.bots[b].tornDown = TRUE]
       ELSE SetBot(s, b, [s.bots[b] EXCEPT !.client = "destroyed",
                                           !.adapter = "off",
                                           !.connected = FALSE,
                                           !.status = "disconnected",
                                           !.qrCode = NULL,
                                           !.qrCodeDataURL = NULL,
                                           !.tornDown = TRUE])

\* DisconnectRejects with the try/catch of the client-library class's
\* disconnect (776, 790-792) left out: a failed destroy() rejects too.
DisconnectRejectsUncaught(out) == out = "throw"

\* Whether disconnect() rejects to its caller.
DisconnectRejects(out) == variant = "browser" /\ out = "throw"

\* One call of disconnect() from its entry to its end.
DisconnectOnce(s, b, out) == DisconnectTail(DisconnectCall(s, b), b, out)

\* How the adapter part of a disconnect() can end on a session that a
\* disconnect() has torn down before: a destroy() of a destroyed client may
\* fail; the QR file was unlinked, so existsSync (419) is false and
\* unlinkSync is not called.
SecondOuts == IF variant = "browser" THEN {"ok"} ELSE {"ok", "throw"}

\* ------------------------------------------------------------ HTTP handlers
\* One invocation of a handler of server.js (lines 85-207), from its entry
\* to its response.  pc is the await it is suspended at; bot the session it
\* created, old the session whose disconnect it awaits, timer its
\* initTimeout, td the outcome it saw of the teardown.
NoCfg == [webhookUrl |-> FALSE, callbackUrl |-> FALSE]

NoReq ==
  [kind |-> "none", userId |-> "none", cfg |-> NoCfg, pc |-> "idle",
   bot |-> NoBot, old |-> NoBot, timer |-> "none", td |-> "none"]

Has(s, u) == s.whatsappBots[u] # NoBot

\* Delete with whatsappBots.clear() in place of whatsappBots.delete(userId).
DeleteEvery(s, u) == [s EXCEPT !.whatsappBots = [v \in Users |-> NoBot]]

Delete(s, u) == [s EXCEPT !.whatsappBots[u] = NoBot]

\* GET /status/:userId (57-67): the registered session's flags, or the
\* defaults when the map has no entry for the user.
StatusRoute(s, u) ==
  IF Has(s, u)
  THEN LET bot == s.bots[s.whatsappBots[u]] IN
       [bot_connected |-> IsConnected(bot), status |-> GetStatus(bot),
        qr_available |-> HasQRCode(bot)]
  ELSE [bot_connected |-> FALSE, status |-> "disconnected",
        qr_available |-> FALSE]

\* res.json / res.status(code).json: the handler is over.
Respond(s, r, code, init) ==
  LET q == s.reqs[r]
      ok == code = "200" /\ q.kind = "start" /\ q.bot # NoBot
  IN  [s EXCEPT !.reqs[r] = NoReq,
                !.response =
                  [kind |-> q.kind, userId |-> q.userId, bot |-> q.bot,
                   old |-> q.old, td |-> q.td, init |-> init, res |-> code,
                   status |-> IF ok THEN GetStatus(s.bots[q.bot]) ELSE "none",
                   qrCode |-> IF ok THEN GetQRCode(s.bots[q.bot]) ELSE NULL]]

\* clearTimeout(initTimeout): a timer that has fired stays fired.
ClearTimeout(s, r) ==
  [s EXCEPT !.reqs[r].timer = IF @ = "armed" THEN "cleared" ELSE @]

\* /start, outer catch (143-157): the cleanup disconnects whatever bot the
\* map holds for the user now, then answers 500.
StartAfterCleanup(s, r, out) ==
  LET s1 == DisconnectTail(s, s.reqs[r].old, out)
  IN  Respond(Delete(s1, s.reqs[r].userId), r, "500", "fail")

StartCatch(s, r, out) ==
  LET u == s.reqs[r].userId IN
  IF Has(s, u)
  THEN LET old == s.whatsappBots[u]
           s1 == [DisconnectCall(s, old) EXCEPT !.reqs[r].old = old]
       IN  IF DisconnectAwaits(s1, old)
           THEN [s1 EXCEPT !.reqs[r].pc = "await_cleanup"]
           ELSE StartAfterCleanup(s1, r, out)
  ELSE Respond(s, r, "500", "fail")

\* /start after `await bot.initialize()` (126-142).
\*  resolved: the timer is cleared and the response carries the status and
\*    the challenge read now;
\*  rejected: the timer is cleared, the user's entry deleted, and the error
\*    rethrown to the outer catch.
StartAfterInitialize(s, r, ok, out) ==
  LET b == s.reqs[r].bot
      u == s.reqs[r].userId
      s1 == ClearTimeout(s, r)
  IN  IF ok
      THEN Respond(s1, r, "200", "ok")
      ELSE StartCatch(Delete(s1, u), r, out)

\* /restart/:userId after `await bot.initialize()` (200-206): 200 or the
\* catch's 500; the map is not touched.
RestartAfterInitialize(s, r, ok) ==
  IF ok
  THEN Respond(s, r, "200", "ok")
  ELSE Respond(s, r, "500", "fail")

\* The handler that called initialize() on bot b and awaits it.
Awaiter(s, b) ==
  CHOOSE r \in ReqIds : s.reqs[r].pc = "await_initialize" /\ s.reqs[r].bot = b

AfterInitialize(s, b, ok, out) ==
  LET r == Awaiter(s, b) IN
  IF s.reqs[r].kind = "start"
  THEN StartAfterInitialize(s, r, ok, out)
  ELSE RestartAfterInitialize(s, r, ok)

\* ------------------------------------------------------------ link dispatch
\* A history entry: a call of dispatchLink (ev = "dispatchLink"; first: the
\* call that enters the loop over a message's links) or an HTTP POST issued
\* with axios (ev = "post"; out is "pending" until it settles; status and
\* qrCode are the payload of a notification).
Entry(ev, type, b, dest, msg, link, run, first) ==
  [ev |-> ev, type |-> type, bot |-> b, dest |-> dest, msg |-> msg,
   link |-> link, run |-> run, first |-> first,
   status |-> "none", qrCode |-> NULL,
   out |-> IF ev = "post" THEN "pending" ELSE "none"]

Log(s, e) == [s EXCEPT !.trace = Append(@, e)]

NoMsg == [id |-> "none", from |-> "none", body |-> <<>>, hrefs |-> <<>>, contact |-> "none"]

\* One invocation of checkForNewMessages (browser class) or handleMessage
\* (client-library class).  queue: the message elements still to visit;
\* msg: the message in hand; links: its links still to dispatch; post: the
\* history index of the POST awaited; initial: the check that
\* startMessageMonitoring awaits.
NoRun ==
  [bot |-> NoBot, pc |-> "free", initial |-> FALSE, queue |-> <<>>,
   msg |-> NoMsg, links |-> <<>>, post |-> 0]

\* dispatchLink(link, sender, messageText), up to its first await (275-296,
\* 619-650): POST to the webhookUrl when there is one, else to the
\* callbackUrl when there is one; with neither it returns at once.
PostTo(s, k, dest) ==
  LET run == s.runs[k]
      s1 == Log(s, Entry("post", "link_detected", run.bot, dest,
                         run.msg.id, Head(run.links), k, FALSE))
  IN  [s1 EXCEPT !.runs[k].pc = "post_" \o dest,
                 !.runs[k].post = Len(s1.trace)]

DispatchLinkCall(s, k, first) ==
  LET run == s.runs[k]
      bot == s.bots[run.bot]
      s1 == Log(s, Entry("dispatchLink", "link_detected", run.bot, "none",
                         run.msg.id, Head(run.links), k, first))
  IN  IF bot.webhookUrl THEN PostTo(s1, k, "webhook")
      ELSE IF bot.callbackUrl THEN PostTo(s1, k, "callback")
      ELSE s1

\* With no destination no dispatchLink call awaits anything: the loop over
\* the links (259-261, 588-590) runs to its end in one job.
RECURSIVE DispatchAllNow(_, _, _)
DispatchAllNow(s, k, first) ==
  IF s.runs[k].links = <<>> THEN s
  ELSE LET s1 == DispatchLinkCall(s, k, first)
       IN  DispatchAllNow([s1 EXCEPT !.runs[k].links = Tail(@)], k, FALSE)

HasDestination(bot) == bot.webhookUrl \/ bot.callbackUrl

\* --------------------------------------------- initialize, browser class
\* initialize() after the first check of startMessageMonitoring returned
\* (224-230): the 5-second poll timer is set and initialize resolves to the
\* handler that awaits it.
InitializeAfterMonitor(s, b) ==
  AfterInitialize(SetBot(s, b, [s.bots[b] EXCEPT !.messageCheckInterval = TRUE,
                                                 !.ipc = "done"]),
                  b, TRUE, "ok")

\* initialize()'s catch (92-97, 510-515): status error, notify, rethrow to
\* the handler.  out: how the handler's own cleanup disconnect ends, should
\* it run and settle in the same job.
InitializeCatch(s, b, out) ==
  LET s1 == SetBot(s, b, [s.bots[b] EXCEPT !.status = "error", !.ipc = "failed"])
  IN  AfterInitialize(NotifyStatusChange(s1, b), b, FALSE, out)

\* ------------------------------------------ checkForNewMessages (232-273)
FreeRuns(s) == {k \in RunIds : s.runs[k].pc = "free"}
FreeRun(s) == CHOOSE k \in FreeRuns(s) : \A j \in FreeRuns(s) : k <= j

\* The call: page.$$('[data-testid="msg-container"]') is awaited.
CheckForNewMessagesCall(s, b, initial) ==
  [s EXCEPT !.runs[FreeRun(s)] =
     [NoRun EXCEPT !.bot = b, !.pc = "q_all", !.initial = initial]]

\* The invocation returns; the initial check resumes initialize.
RunEnd(s, k) ==
  LET run == s.runs[k]
      s1 == [s EXCEPT !.runs[k] = NoRun]
  IN  IF run.initial THEN InitializeAfterMonitor(s1, run.bot) ELSE s1

\* Next element of the for loop (237-239): its data-id is awaited.
NextMessage(s, k) ==
  IF s.runs[k].queue = <<>> THEN RunEnd(s, k)
  ELSE [s EXCEPT !.runs[k].msg = Head(s.runs[k].queue),
                 !.runs[k].queue = Tail(@),
                 !.runs[k].links = <<>>,
                 !.runs[k].pc = "q_id"]

\* processedMessages.add(messageId) (264), then the next element.
MarkProcessed(s, k) ==
  LET run == s.runs[k] IN
  NextMessage([s EXCEPT !.bots[run.bot].processedMessages = @ \cup {run.msg.id}], k)

\* page.$$ settled: the elements in the page now, or the outer catch (270).
GotMessages(s, k, ok) ==
  IF ok
  THEN NextMessage([s EXCEPT !.runs[k].queue = s.bots[s.runs[k].bot].dom], k)
  ELSE RunEnd(s, k)

\* GotId with the try/catch around one message (238, 265-268) left out: a
\* throw of the data-id read goes to the outer catch (270), which ends the
\* invocation.
GotIdUncaught(s, k, ok) ==
  LET run == s.runs[k] IN
  IF ~ok THEN RunEnd(s, k)
  ELSE IF run.msg.id = "none" \/ run.msg.id \in s.bots[run.bot].processedMessages
       THEN NextMessage(s, k)
       ELSE [s EXCEPT !.runs[k].pc = "q_links"]

\* data-id settled (239-243): skip an element without id or already
\* processed; a throw is caught per message (265).
GotId(s, k, ok) ==
  LET run == s.runs[k] IN
  IF ~ok \/ run.msg.id = "none"
     \/ run.msg.id \in s.bots[run.bot].processedMessages
  THEN NextMessage(s, k)
  ELSE [s EXCEPT !.runs[k].pc = "q_links"]

\* link.href.startsWith('http') (249)
Http == <<"h", "t", "t", "p">>

\* Whether the literal lit stands in text at index i.
At(text, i, lit) ==
  /\ i + Len(lit) - 1 <= Len(text)
  /\ SubSeq(text, i, i + Len(lit) - 1) = lit

StartsWithHttp(href) == At(href, 1, Http)

FilterHttp(hrefs) == SelectSeq(hrefs, StartsWithHttp)

\* The a[href] elements settled (246-252).
GotLinks(s, k, ok) ==
  LET run == s.runs[k]
      links == FilterHttp(run.msg.hrefs)
  IN  IF ~ok THEN NextMessage(s, k)
      ELSE IF Len(links) > 0
           THEN [s EXCEPT !.runs[k].links = links, !.runs[k].pc = "q_sender"]
           ELSE MarkProcessed(s, k)

\* Text and author settled (256-257; their own .catch gives '' / 'Unknown'):
\* dispatch the links one after the other.
GotSender(s, k) ==
  IF HasDestination(s.bots[s.runs[k].bot])
  THEN DispatchLinkCall(s, k, TRUE)
  ELSE MarkProcessed(DispatchAllNow(s, k, TRUE), k)

\* dispatchLink returned for the link in hand: the next link, or the end of
\* the message.
LinkDone(s, k) ==
  LET s1 == [s EXCEPT !.runs[k].links = Tail(@), !.runs[k].post = 0]
  IN  IF s1.runs[k].links # <<>> THEN DispatchLinkCall(s1, k, FALSE)
      ELSE IF variant = "browser" THEN MarkProcessed(s1, k)
      ELSE RunEnd(s1, k)

\* PostSettled with the catch of dispatchLink (317-319, 679-681) left out:
\* the rejection of axios.post leaves dispatchLink and ends the loop over
\* the links in the caller's catch.
PostSettledUncaught(s, k, ok) ==
  LET run == s.runs[k]
      s1 == [s EXCEPT !.trace[run.post].out = IF ok THEN "ok" ELSE "failed"]
  IN  IF ~ok
      THEN IF variant = "browser" THEN NextMessage(s1, k) ELSE RunEnd(s1, k)
      ELSE IF run.pc = "post_webhook" /\ s.bots[run.bot].callbackUrl
           THEN PostTo(s1, k, "callback")
           ELSE LinkDone(s1, k)

\* An axios.post of dispatchLink settled (290-319, 644-681): after the
\* webhook POST comes the callback POST; a failure goes to the catch, which
\* logs and returns.
PostSettled(s, k, ok) ==
  LET run == s.runs[k]
      s1 == [s EXCEPT !.trace[run.post].out = IF ok THEN "ok" ELSE "failed"]
  IN  IF ok /\ run.pc = "post_webhook" /\ s.bots[run.bot].callbackUrl
      THEN PostTo(s1, k, "callback")
      ELSE LinkDone(s1, k)

\* ------------------------------------------------- initialize (21-98)
\* The stored form of a challenge: the browser class stores the screenshot
\* of the QR element as a data URL (180-181), the client-library class the
\* raw string (523) and qrcode.toDataURL of it (526).
Raw(tok) == <<"qr", tok>>
DataURL(tok) == <<"data:image/png;base64", tok>>

\* puppeteer.launch settled (72).
LaunchSettled(s, b, ok, out) ==
  IF ok
  THEN SetBot(s, b, [s.bots[b] EXCEPT !.browser = "open", !.ipc = "newPage"])
  ELSE InitializeCatch(s, b, out)

\* browser.newPage settled (74).
NewPageSettled(s, b, ok, out) ==
  IF ok
  THEN SetBot(s, b, [s.bots[b] EXCEPT !.page = "open", !.ipc = "setUserAgent"])
  ELSE InitializeCatch(s, b, out)

\* page.setUserAgent settled (76), then loadSession (100-122) up to its
\* first await: without a session file it returns at once, with one that
\* cannot be read or parsed its catch (119-121) runs and it returns; then
\* page.goto is called (81).
SetUserAgentSettled(s, b, ok, file, out) ==
  IF ok
  THEN SetBot(s, b, [s.bots[b] EXCEPT
                       !.ipc = IF file = "valid" THEN "loadSession" ELSE "goto",
                       !.loadFailed = (file = "corrupt")])
  ELSE InitializeCatch(s, b, out)

\* LoadSessionSettled with the try/catch of loadSession (101, 119-121) left
\* out: a failing setCookie or evaluateOnNewDocument rejects into the catch
\* of initialize.
LoadSessionSettledUncaught(s, b, ok) ==
  IF ok THEN SetBot(s, b, [s.bots[b] EXCEPT !.ipc = "goto"])
  ELSE InitializeCatch(SetBot(s, b, [s.bots[b] EXCEPT !.loadFailed = TRUE]), b, "ok")

\* The cookies and storage of loadSession settled: a failure is caught
\* (119-121) and initialize goes on to page.goto either way.
LoadSessionSettled(s, b, ok) ==
  SetBot(s, b, [s.bots[b] EXCEPT !.ipc = "goto", !.loadFailed = ~ok])

\* The head of waitForConnection's loop (158): past the timeout it throws
\* (206) into initialize's catch, else page.$('[data-ref]') is awaited.
LoopHead(s, b, timedOut, out) ==
  IF timedOut THEN InitializeCatch(s, b, out)
  ELSE SetBot(s, b, [s.bots[b] EXCEPT !.ipc = "w_qr"])

\* page.goto settled (81), then waitForConnection is entered (149-158).
GotoSettled(s, b, ok, out) ==
  IF ok
  THEN LET s1 == SetBot(s, b, [s.bots[b] EXCEPT !.status = "connecting",
                                                !.adapter = "loading"])
       IN  LoopHead(NotifyStatusChange(s1, b), b, FALSE, out)
  ELSE InitializeCatch(s, b, out)

\* page.$('[data-ref]') settled (161-177): with a QR element the status
\* becomes qr_ready and the screenshot is awaited; a throw is caught by the
\* loop (201).
QrQuerySettled(s, b, res, timedOut, out) ==
  CASE res = "found" ->
         SetBot(s, b, [s.bots[b] EXCEPT !.status = "qr_ready", !.ipc = "w_shot"])
    [] res = "none" -> SetBot(s, b, [s.bots[b] EXCEPT !.ipc = "w_chat"])
    [] OTHER -> LoopHead(s, b, timedOut, out)

\* The screenshot settled (174-188): the data URL of the QR on screen is
\* stored and notified; a failure is logged.  Then the chat list is queried.
ScreenshotSettled(s, b, ok) ==
  LET bot == s.bots[b] IN
  IF ok
  THEN NotifyQRCode(SetBot(s, b, [bot EXCEPT !.qrCode = DataURL(bot.token),
                                             !.ipc = "w_chat"]), b)
  ELSE SetBot(s, b, [bot EXCEPT !.ipc = "w_chat"])

\* page.$('[data-testid="chat-list"]') settled (192-200): logged in, so the
\* session is saved; else the loop sleeps two seconds.
ChatQuerySettled(s, b, res, timedOut, out) ==
  CASE res = "found" -> SetBot(s, b, [s.bots[b] EXCEPT !.ipc = "w_save"])
    [] res = "none" -> SetBot(s, b, [s.bots[b] EXCEPT !.ipc = "w_sleep"])
    [] OTHER -> LoopHead(s, b, timedOut, out)

\* saveSession settled (its failure is caught, 144-146): the challenge is
\* cleared and waitForConnection returns (196-197); initialize sets the
\* flags (86-88) and startMessageMonitoring registers the response listener
\* and awaits its first check (213-224).
SaveSessionSettled(s, b, ok) ==
  LET s1 == SetBot(s, b, [s.bots[b] EXCEPT !.saveFailed = ~ok,
                                           !.qrCode = NULL,
                                           !.connected = TRUE,
                                           !.status = "connected",
                                           !.responseListener = TRUE,
                                           !.ipc = "monitor"])
  IN  CheckForNewMessagesCall(NotifyStatusChange(s1, b), b, TRUE)

\* page.waitForTimeout(2000) settled (200): back to the head of the loop,
\* also when it threw (201-203).
SleepSettled(s, b, timedOut, out) == LoopHead(s, b, timedOut, out)

\* initialize() up to its first await on the adapter.
\*  browser class (21-72): puppeteer.launch;
\*  client-library class (498-506): client.initialize.
InitializeCall(s, b) ==
  LET s1 == NotifyStatusChange(
              SetBot(s, b, [s.bots[b] EXCEPT !.status = "initializing"]), b)
  IN  IF variant = "browser"
      THEN SetBot(s1, b, [s1.bots[b] EXCEPT !.ipc = "launch"])
      ELSE SetBot(s1, b, [s1.bots[b] EXCEPT !.ipc = "client_init",
                                            !.client = "started",
                                            !.adapter = "unauth"])

\* client.initialize settled (506-515).
ClientInitializeSettled(s, b, ok, out) ==
  IF ok
  THEN AfterInitialize(SetBot(s, b, [s.bots[b] EXCEPT !.ipc = "done"]), b, TRUE, out)
  ELSE InitializeCatch(s, b, out)

\* ------------------------------------ event handlers, client-library class
\* handleQRCode(qr) up to its await (518-526): the raw string is stored and
\* qrcode.toDataURL awaited.
HandleQRCode(s, b, tok) ==
  SetBot(s, b, [s.bots[b] EXCEPT !.qrCode = Raw(tok), !.qrTasks = @ \cup {tok}])

\* toDataURL settled (526-545): the data URL is stored, the status becomes
\* qr_ready and both notifications are scheduled; a failure is logged.
QrEncoded(s, b, tok, ok) ==
  LET bot == [s.bots[b] EXCEPT !.qrTasks = @ \ {tok}] IN
  IF ok
  THEN LET s1 == SetBot(s, b, [bot EXCEPT !.qrCodeDataURL = DataURL(tok),
                                          !.status = "qr_ready"])
       IN  NotifyQRCode(NotifyStatusChange(s1, b), b)
  ELSE SetBot(s, b, bot)

\* handleReady() (548-562)
HandleReady(s, b) ==
  NotifyStatusChange(
    SetBot(s, b, [s.bots[b] EXCEPT !.status = "connected",
                                   !.connected = TRUE,
                                   !.qrCode = NULL,
                                   !.qrCodeDataURL = NULL]), b)

\* handleDisconnected(reason) (598-612)
HandleDisconnected(s, b) ==
  NotifyStatusChange(
    SetBot(s, b, [s.bots[b] EXCEPT !.status = "disconnected",
                                   !.connected = FALSE,
                                   !.qrCode = NULL,
                                   !.qrCodeDataURL = NULL]), b)

\* client.on('auth_failure') (491-495)
HandleAuthFailure(s, b) ==
  NotifyStatusChange(SetBot(s, b, [s.bots[b] EXCEPT !.status = "auth_failed"]), b)

\* ---------------------------------------------------- /start (85-142)
\* new WhatsAppBot, whatsappBots.set, the 30-second initTimeout, and
\* bot.initialize() up to its await (111-126).
StartCreate(s, r) ==
  LET b == s.nbots + 1
      u == s.reqs[r].userId
      s1 == [s EXCEPT !.nbots = b,
                      !.bots[b] = NewBot(u, s.reqs[r].cfg),
                      !.whatsappBots[u] = b,
                      !.reqs[r].bot = b,
                      !.reqs[r].timer = "armed",
                      !.reqs[r].pc = "await_initialize"]
  IN  InitializeCall(s1, b)

\* After `await whatsappBots.get(userId).disconnect()` (104-109): an error
\* of the teardown is caught and logged; the entry is deleted either way.
StartAfterDisconnect(s, r, out) ==
  LET s1 == DisconnectTail(s, s.reqs[r].old, out)
      s2 == [s1 EXCEPT !.reqs[r].td = out]
  IN  StartCreate(Delete(s2, s.reqs[r].userId), r)

\* The handler from its entry to its first await (85-126).
StartEntry(s, r, u, cfg, out) ==
  LET s0 == [s EXCEPT !.reqs[r] = [NoReq EXCEPT !.kind = "start",
                                                !.userId = u, !.cfg = cfg]]
  IN  IF Has(s0, u)
      THEN LET old == s0.whatsappBots[u]
               s1 == [DisconnectCall(s0, old) EXCEPT !.reqs[r].old = old]
           IN  IF DisconnectAwaits(s1, old)
               THEN [s1 EXCEPT !.reqs[r].pc = "await_disconnect"]
               ELSE StartAfterDisconnect(s1, r, out)
      ELSE StartCreate(s0, r)

\* The initTimeout callback (120-123): delete the user's entry.
InitTimeout(s, r) ==
  Delete([s EXCEPT !.reqs[r].timer = "fired"], s.reqs[r].userId)

\* ------------------------------------------------------ /stop (160-179)
StopAfterDisconnect(s, r, out) ==
  LET s1 == DisconnectTail(s, s.reqs[r].old, out) IN
  IF DisconnectRejects(out)
  THEN Respond([s1 EXCEPT !.reqs[r].td = out], r, "500", "none")
  ELSE Respond(Delete([s1 EXCEPT !.reqs[r].td = out], s.reqs[r].userId), r, "200", "none")

StopEntry(s, r, u, out) ==
  LET s0 == [s EXCEPT !.reqs[r] = [NoReq EXCEPT !.kind = "stop", !.userId = u]]
  IN  IF Has(s0, u)
      THEN LET old == s0.whatsappBots[u]
               s1 == [DisconnectCall(s0, old) EXCEPT !.reqs[r].old = old]
           IN  IF DisconnectAwaits(s1, old)
               THEN [s1 EXCEPT !.reqs[r].pc = "await_disconnect"]
               ELSE StopAfterDisconnect(s1, r, out)
      ELSE Respond(s0, r, "200", "none")

\* -------------------------------------------- /restart/:userId (181-207)
RestartCreate(s, r) ==
  LET b == s.nbots + 1
      u == s.reqs[r].userId
      s1 == [s EXCEPT !.nbots = b,
                      !.bots[b] = NewBot(u, s.reqs[r].cfg),
                      !.whatsappBots[u] = b,
                      !.reqs[r].bot = b,
                      !.reqs[r].pc = "await_initialize"]
  IN  InitializeCall(s1, b)

RestartAfterDisconnect(s, r, out) ==
  LET s1 == DisconnectTail(s, s.reqs[r].old, out) IN
  IF DisconnectRejects(out)
  THEN Respond([s1 EXCEPT !.reqs[r].td = out], r, "500", "none")
  ELSE RestartCreate(Delete([s1 EXCEPT !.reqs[r].td = out], s.reqs[r].userId), r)

RestartEntry(s, r, u, cfg, out) ==
  LET s0 == [s EXCEPT !.reqs[r] = [NoReq EXCEPT !.kind = "restart",
                                                !.userId = u, !.cfg = cfg]]
  IN  IF Has(s0, u)
      THEN LET old == s0.whatsappBots[u]
               s1 == [DisconnectCall(s0, old) EXCEPT !.reqs[r].old = old]
           IN  IF DisconnectAwaits(s1, old)
               THEN [s1 EXCEPT !.reqs[r].pc = "await_disconnect"]
               ELSE RestartAfterDisconnect(s1, r, out)
      ELSE RestartCreate(s0, r)

\* ------------------------------- handleMessage, client-library class
\* extractLinks(text) (614-617): text.match(/(https?:\/\/[^\s]+)/g) || [].
\* A text is a sequence of characters.
IsSpace(c) == c \in {" ", "\n"}

\* NonSpaceEnd for [^\s] without its +: one character.
NonSpaceEndOne(text, i) ==
  IF i <= Len(text) /\ ~IsSpace(text[i]) THEN i ELSE i - 1

\* The last index of the run of non-space characters that starts at i
\* (i - 1 when there is none): [^\s]+ is greedy.
RECURSIVE NonSpaceEnd(_, _)
NonSpaceEnd(text, i) ==
  IF i <= Len(text) /\ ~IsSpace(text[i]) THEN NonSpaceEnd(text, i + 1) ELSE i - 1

\* The last index of the match of the pattern that starts at i, 0 when the
\* pattern does not match there.
MatchEnd(text, i) ==
  IF ~At(text, i, Http) THEN 0
  ELSE LET p == i + Len(Http)
           q == IF At(text, p, <<"s", ":", "/", "/">>) THEN p + 4
                ELSE IF At(text, p, <<":", "/", "/">>) THEN p + 3
                ELSE 0
       IN  IF q = 0 \/ NonSpaceEnd(text, q) < q THEN 0 ELSE NonSpaceEnd(text, q)

\* The matches from index i on, left to right, not overlapping.
RECURSIVE MatchesFrom(_, _)
MatchesFrom(text, i) ==
  IF i > Len(text) THEN <<>>
  ELSE IF MatchEnd(text, i) > 0
       THEN <<SubSeq(text, i, MatchEnd(text, i))>> \o MatchesFrom(text, MatchEnd(text, i) + 1)
       ELSE MatchesFrom(text, i + 1)

ExtractLinks(text) == MatchesFrom(text, 1)

\* handleMessage without the test of line 567.
HandleMessageAnySender(s, b, m) ==
  IF m.id \in s.bots[b].processedMessages THEN s
  ELSE LET s1 == [s EXCEPT !.bots[b].processedMessages = @ \cup {m.id}]
           links == ExtractLinks(m.body)
       IN  IF Len(links) > 0
           THEN [s1 EXCEPT !.runs[FreeRun(s1)] =
                   [NoRun EXCEPT !.bot = b, !.pc = "q_contact",
                                 !.msg = m, !.links = links]]
           ELSE s1

\* handleMessage(message) up to its first await (564-584): status
\* broadcasts and processed ids return at once; the id is added before the
\* links are extracted; with links, message.getContact() is awaited.
HandleMessage(s, b, m) ==
  IF m.from = "status@broadcast" THEN s
  ELSE IF m.id \in s.bots[b].processedMessages THEN s
  ELSE LET s1 == [s EXCEPT !.bots[b].processedMessages = @ \cup {m.id}]
           links == ExtractLinks(m.body)
       IN  IF Len(links) > 0
           THEN [s1 EXCEPT !.runs[FreeRun(s1)] =
                   [NoRun EXCEPT !.bot = b, !.pc = "q_contact",
                                 !.msg = m, !.links = links]]
           ELSE s1

\* getContact settled (584-590): the links are dispatched one after the
\* other; a rejection goes to handleMessage's catch (593).
GotContact(s, k, ok) ==
  IF ~ok THEN RunEnd(s, k)
  ELSE IF HasDestination(s.bots[s.runs[k].bot])
       THEN DispatchLinkCall(s, k, TRUE)
       ELSE RunEnd(DispatchAllNow(s, k, TRUE), k)

\* ------------------------------------------- the setImmediate callbacks
\* The callback of notifyStatusChange (325-349, 687-711) or notifyQRCode
\* (356-380, 718-742) runs: it POSTs to the callbackUrl the status, or the
\* stored challenge, that the session has now.
RunImmediate(s) ==
  LET im == Head(s.immediates)
      bot == s.bots[im.bot]
      e == [Entry("post", im.type, im.bot, "callback", "none", <<>>, 0, FALSE)
              EXCEPT !.status = IF im.type = "connection_status"
                                THEN bot.status ELSE "none",
                     !.qrCode = IF im.type = "qr_code"
                                THEN StoredChallenge(bot) ELSE NULL]
  IN  Log([s EXCEPT !.immediates = Tail(@)], e)

\* The POST of a callback settled: a failure is caught and logged (346,
\* 377, 708, 739).
NotifySettled(s, i, ok) ==
  [s EXCEPT !.trace[i].out = IF ok THEN "ok" ELSE "failed"]

\* --------------------------------------- SIGTERM / SIGINT (278-295, 537-543)
Registered(s) == {s.whatsappBots[u] : u \in Users} \ {NoBot}

Least(S) == CHOOSE b \in S : \A c \in S : b <= c

\* bot.disconnect() as the handler calls it: up to its await, or to its end
\* when it awaits nothing (outs[b]: how it ends then).  A rejection is
\* recorded in pc.
ShutdownDisconnect(s, b, outs) ==
  LET s1 == DisconnectCall(s, b) IN
  IF DisconnectAwaits(s1, b)
  THEN [s1 EXCEPT !.sd.pending = @ \cup {b}]
  ELSE LET s2 == DisconnectTail(s1, b, outs[b])
       IN  IF DisconnectRejects(outs[b]) THEN [s2 EXCEPT !.sd.pc = "rejected"] ELSE s2

\* Array.from(whatsappBots.values()).map(bot => bot.disconnect()) (281,
\* 290): every registered session, in the order of the map.
RECURSIVE DisconnectEach(_, _, _)
DisconnectEach(s, todo, outs) ==
  IF todo = {} THEN s
  ELSE DisconnectEach(ShutdownDisconnect(s, Least(todo), outs),
                      todo \ {Least(todo)}, outs)

\* await Promise.all(shutdownPromises); process.exit(0) (282-284): all
\* resolved, the process exits; one rejected, the handler throws and exit is
\* not called.
AfterPromiseAll(s) ==
  IF s.sd.pc = "rejected" THEN s
  ELSE IF s.sd.pending = {} THEN [s EXCEPT !.sd.pc = "exited"]
  ELSE [s EXCEPT !.sd.pc = "awaiting"]

ShutdownAllEntry(s, outs) ==
  AfterPromiseAll(DisconnectEach([s EXCEPT !.sd.mode = "all"], Registered(s), outs))

\* for (const [userId, bot] of whatsappBots) await bot.disconnect() (539-541):
\* the iterator goes on to the next entry of the map as it is then; after
\* the last one process.exit(0) (542).
RECURSIVE ShutdownLoop(_, _)
ShutdownLoop(s, outs) ==
  LET rest == {b \in Registered(s) : b > s.sd.last} IN
  IF rest = {} THEN [s EXCEPT !.sd.pc = "exited"]
  ELSE LET b == Least(rest)
           s1 == ShutdownDisconnect([s EXCEPT !.sd.last = b], b, outs)
       IN  IF s1.sd.pc = "rejected" THEN s1
           ELSE IF s1.sd.pending # {} THEN [s1 EXCEPT !.sd.pc = "awaiting"]
           ELSE ShutdownLoop(s1, outs)

ShutdownSequentialEntry(s, outs) ==
  ShutdownLoop([s EXCEPT !.sd.mode = "sequential"], outs)

\* A disconnect that the handler called settled.
ShutdownDisconnectSettled(s, b, out, outs) ==
  LET s1 == [DisconnectTail(s, b, out) EXCEPT !.sd.pending = @ \ {b}] IN
  IF s.sd.pc # "awaiting" THEN s1
  ELSE IF DisconnectRejects(out) THEN [s1 EXCEPT !.sd.pc = "rejected"]
  ELSE IF s.sd.mode = "all" THEN AfterPromiseAll(s1)
  ELSE ShutdownLoop(s1, outs)

\* ================================================================= actions
Outs == {"ok", "throw"}

\* The slot a new handler invocation takes: the first one not in use.
FreeReqs == {r \in ReqIds : reqs[r].pc = "idle"}
FreeReq == CHOOSE r \in FreeReqs : \A j \in FreeReqs : r <= j

\* POST /start {userId, webhookUrl, callbackUrl}.  Requests are drawn with a
\* userId and with Chrome configured: the 400 and 503 answers (89-99) are
\* sent before anything is read or written.
Start(u, cfg) ==
  /\ FreeReqs # {}
  /\ nbots < MaxBots
  /\ \E out \in Outs : Commit(StartEntry(Cur, FreeReq, u, cfg, out))

StartDisconnectSettles(r) ==
  /\ reqs[r].kind = "start" /\ reqs[r].pc = "await_disconnect"
  /\ ~bots[reqs[r].old].hangs
  /\ nbots < MaxBots
  /\ \E out \in Outs : Commit(StartAfterDisconnect(Cur, r, out))

StartCleanupSettles(r) ==
  /\ reqs[r].kind = "start" /\ reqs[r].pc = "await_cleanup"
  /\ \E out \in Outs : Commit(StartAfterCleanup(Cur, r, out))

InitTimeoutFires(r) ==
  /\ reqs[r].timer = "armed"
  /\ Commit(InitTimeout(Cur, r))

\* POST /stop {userId}
Stop(u) ==
  /\ FreeReqs # {}
  /\ \E out \in Outs : Commit(StopEntry(Cur, FreeReq, u, out))

StopDisconnectSettles(r) ==
  /\ reqs[r].kind = "stop" /\ reqs[r].pc = "await_disconnect"
  /\ ~bots[reqs[r].old].hangs
  /\ \E out \in Outs : Commit(StopAfterDisconnect(Cur, r, out))

\* POST /restart/:userId {webhookUrl, callbackUrl}
Restart(u, cfg) ==
  /\ FreeReqs # {}
  /\ nbots < MaxBots
  /\ \E out \in Outs : Commit(RestartEntry(Cur, FreeReq, u, cfg, out))

RestartDisconnectSettles(r) ==
  /\ reqs[r].kind = "restart" /\ reqs[r].pc = "await_disconnect"
  /\ ~bots[reqs[r].old].hangs
  /\ nbots < MaxBots
  /\ \E out \in Outs : Commit(RestartAfterDisconnect(Cur, r, out))

\* ------------------------------------------------ adapter calls settling
\* The connection timeout of waitForConnection is 300 s and the initTimeout
\* of the /start that awaits this initialize is 30 s, armed in the same job:
\* while that timer is still armed, the 300 s have not passed.
MayTimeOut(b) ==
  \A r \in ReqIds :
    (reqs[r].pc = "await_initialize" /\ reqs[r].bot = b) => reqs[r].timer # "armed"

TimeOuts(b) == IF MayTimeOut(b) THEN BOOLEAN ELSE {FALSE}

LaunchSettles(b) ==
  /\ bots[b].ipc = "launch"
  /\ \E ok \in BOOLEAN : Commit(LaunchSettled(Cur, b, ok, "ok"))

\* A page of a closed browser cannot be opened, a closed page not used.
NewPageSettles(b) ==
  /\ bots[b].ipc = "newPage"
  /\ \E ok \in BOOLEAN :
       /\ ok => bots[b].browser = "open"
       /\ Commit(NewPageSettled(Cur, b, ok, "ok"))

SetUserAgentSettles(b) ==
  /\ bots[b].ipc = "setUserAgent"
  /\ \E ok \in BOOLEAN, file \in {"absent", "corrupt", "valid"} :
       /\ ok => bots[b].page = "open"
       /\ Commit(SetUserAgentSettled(Cur, b, ok, file, "ok"))

LoadSessionSettles(b) ==
  /\ bots[b].ipc = "loadSession"
  /\ \E ok \in BOOLEAN : Commit(LoadSessionSettled(Cur, b, ok))

GotoSettles(b) ==
  /\ bots[b].ipc = "goto"
  /\ \E ok \in BOOLEAN :
       /\ ok => bots[b].page = "open"
       /\ Commit(GotoSettled(Cur, b, ok, "ok"))

\* What a query of the page answers: the element when the page shows it,
\* nothing when it does not, a throw when the page is closed.
Query(b, shown) ==
  IF bots[b].page # "open" THEN "throw"
  ELSE IF bots[b].adapter = shown THEN "found" ELSE "none"

QrQuerySettles(b) ==
  /\ bots[b].ipc = "w_qr"
  /\ \E timedOut \in TimeOuts(b) :
       Commit(QrQuerySettled(Cur, b, Query(b, "qr"), timedOut, "ok"))

ScreenshotSettles(b) ==
  /\ bots[b].ipc = "w_shot"
  /\ \E ok \in BOOLEAN :
       /\ ok => (bots[b].page = "open" /\ bots[b].adapter = "qr")
       /\ Commit(ScreenshotSettled(Cur, b, ok))

ChatQuerySettles(b) ==
  /\ bots[b].ipc = "w_chat"
  /\ \E timedOut \in TimeOuts(b) :
       Commit(ChatQuerySettled(Cur, b, Query(b, "chats"), timedOut, "ok"))

SaveSessionSettles(b) ==
  /\ bots[b].ipc = "w_save"
  /\ FreeRuns(Cur) # {}
  /\ \E ok \in BOOLEAN : Commit(SaveSessionSettled(Cur, b, ok))

SleepSettles(b) ==
  /\ bots[b].ipc = "w_sleep"
  /\ \E timedOut \in TimeOuts(b) : Commit(SleepSettled(Cur, b, timedOut, "ok"))

ClientInitializeSettles(b) ==
  /\ bots[b].ipc = "client_init"
  /\ \E ok \in BOOLEAN : Commit(ClientInitializeSettled(Cur, b, ok, "ok"))

\* ------------------------------------------------ the page, browser class
\* WhatsApp Web shows a QR code (a new one each time it refreshes) until
\* the phone scans it, then the chat list; with a restored session it shows
\* the chat list at once.
PageShowsQr(b) ==
  /\ variant = "browser" /\ bots[b].page = "open"
  /\ bots[b].adapter \in {"loading", "qr"}
  /\ bots[b].token < MaxQr
  /\ Commit(SetBot(Cur, b, [bots[b] EXCEPT !.adapter = "qr", !.token = @ + 1]))

PageShowsChats(b) ==
  /\ variant = "browser" /\ bots[b].page = "open"
  /\ bots[b].adapter \in {"loading", "qr"}
  /\ Commit(SetBot(Cur, b, [bots[b] EXCEPT !.adapter = "chats"]))

\* A message element appears in the open chat.
PageShowsMessage(b, m) ==
  /\ variant = "browser" /\ bots[b].page = "open"
  /\ bots[b].adapter = "chats"
  /\ Len(bots[b].dom) < MaxDom
  /\ \A i \in DOMAIN bots[b].dom : bots[b].dom[i].id # m.id
  /\ Commit(SetBot(Cur, b, [bots[b] EXCEPT !.dom = Append(@, m)]))

\* --------------------------------------------- intake runs, browser class
\* page.on('response') (213-221) and the 5-second timer (227-229) each call
\* checkForNewMessages; nothing awaits these calls.
ResponseEvent(b) ==
  /\ bots[b].responseListener /\ bots[b].page = "open"
  /\ FreeRuns(Cur) # {}
  /\ Commit(CheckForNewMessagesCall(Cur, b, FALSE))

IntervalTick(b) ==
  /\ bots[b].messageCheckInterval
  /\ FreeRuns(Cur) # {}
  /\ Commit(CheckForNewMessagesCall(Cur, b, FALSE))

PageOpen(k) == bots[runs[k].bot].page = "open"

MessagesSettle(k) ==
  /\ runs[k].pc = "q_all"
  /\ \E ok \in BOOLEAN :
       /\ ok => PageOpen(k)
       /\ Commit(GotMessages(Cur, k, ok))

IdSettles(k) ==
  /\ runs[k].pc = "q_id"
  /\ \E ok \in BOOLEAN :
       /\ ok => PageOpen(k)
       /\ Commit(GotId(Cur, k, ok))

LinksSettle(k) ==
  /\ runs[k].pc = "q_links"
  /\ \E ok \in BOOLEAN :
       /\ ok => PageOpen(k)
       /\ Commit(GotLinks(Cur, k, ok))

SenderSettles(k) ==
  /\ runs[k].pc = "q_sender"
  /\ Commit(GotSender(Cur, k))

\* The axios.post a dispatchLink awaits succeeds, or fails (refused,
\* non-2xx, or its timeout of 5 or 10 seconds).
PostSettles(k) ==
  /\ runs[k].pc \in {"post_webhook", "post_callback"}
  /\ \E ok \in BOOLEAN : Commit(PostSettled(Cur, k, ok))

\* ------------------------------------- adapter events, client-library class
\* The client emits qr (a new challenge each time) until the phone scans
\* it, then ready; or auth_failure; disconnected when the session ends.
Emitting(b) == variant = "client" /\ bots[b].client = "started"

QrEvent(b) ==
  /\ Emitting(b) /\ bots[b].adapter = "unauth"
  /\ bots[b].token < MaxQr
  /\ LET tok == bots[b].token + 1 IN
     Commit(HandleQRCode(SetBot(Cur, b, [bots[b] EXCEPT !.token = tok]), b, tok))

QrEncodingSettles(b) ==
  /\ \E tok \in bots[b].qrTasks, ok \in BOOLEAN : Commit(QrEncoded(Cur, b, tok, ok))

ReadyEvent(b) ==
  /\ Emitting(b) /\ bots[b].adapter = "unauth"
  /\ Commit(HandleReady(SetBot(Cur, b, [bots[b] EXCEPT !.adapter = "ready"]), b))

AuthFailureEvent(b) ==
  /\ Emitting(b) /\ bots[b].adapter = "unauth"
  /\ Commit(HandleAuthFailure(SetBot(Cur, b, [bots[b] EXCEPT !.adapter = "failed"]), b))

DisconnectedEvent(b) ==
  /\ Emitting(b) /\ bots[b].adapter \in {"unauth", "ready"}
  /\ Commit(HandleDisconnected(SetBot(Cur, b, [bots[b] EXCEPT !.adapter = "gone"]), b))

\* --------------------------------------- messages, client-library class
\* The client emits message for an incoming message; the same message can
\* be emitted again.
MessageEvent(b, m) ==
  /\ Emitting(b) /\ bots[b].adapter = "ready"
  /\ FreeRuns(Cur) # {}
  /\ Commit(HandleMessage(Cur, b, m))

ContactSettles(k) ==
  /\ runs[k].pc = "q_contact"
  /\ \E ok \in BOOLEAN : Commit(GotContact(Cur, k, ok))

\* ------------------------------------------------------- notifications
ImmediateRuns ==
  /\ immediates # <<>>
  /\ Commit(RunImmediate(Cur))

NotifySettles(i) ==
  /\ i \in DOMAIN trace
  /\ trace[i].ev = "post" /\ trace[i].type # "link_detected"
  /\ trace[i].out = "pending"
  /\ \E ok \in BOOLEAN : Commit(NotifySettled(Cur, i, ok))

\* ------------------------------------------------------------- shutdown
\* The adapter of a session stops answering: a close or destroy called on
\* it never settles.
AdapterHangs(b) ==
  /\ b <= nbots /\ ~bots[b].hangs
  /\ Commit(SetBot(Cur, b, [bots[b] EXCEPT !.hangs = TRUE]))

\* SIGTERM or SIGINT arrives (the two handlers are the same code).
Signal ==
  /\ sd.pc = "idle"
  /\ \E outs \in [BotIds -> Outs] : Commit(ShutdownAllEntry(Cur, outs))

SignalSequential ==
  /\ sd.pc = "idle"
  /\ \E outs \in [BotIds -> Outs] : Commit(ShutdownSequentialEntry(Cur, outs))

ShutdownDisconnectSettles(b) ==
  /\ b \in sd.pending /\ ~bots[b].hangs
  /\ \E out \in Outs, outs \in [BotIds -> Outs] :
       Commit(ShutdownDisconnectSettled(Cur, b, out, outs))

\* The handler's rejection is handled by nobody: the runtime may bring the
\* process down for it.
ProcessCrashes ==
  /\ sd.pc = "rejected"
  /\ Commit([Cur EXCEPT !.sd.pc = "crashed"])

\* ---------------------------------------------------------- specifications
Init ==
  /\ variant \in {"browser", "client"}
  /\ whatsappBots = [u \in Users |-> NoBot]
  /\ bots = [b \in BotIds |-> NoSession]
  /\ nbots = 0
  /\ reqs = [r \in ReqIds |-> NoReq]
  /\ immediates = <<>>
  /\ runs = [k \in RunIds |-> NoRun]
  /\ trace = <<>>
  /\ sd = NoShutdown
  /\ response = NoResponse

\* The registry: /start, /stop and /restart for one tenant, with sessions
\* that have no callbackUrl (so nothing is notified) and receive no
\* messages; the client-library class authenticates from its stored
\* session (no qr event); the browser class loads and saves its session
\* file without failure.
RegistryUsers == {"u1"}

NextRegistry ==
  \/ \E u \in RegistryUsers : Start(u, NoCfg) \/ Stop(u) \/ Restart(u, NoCfg)
  \/ \E r \in ReqIds :
       \/ StartDisconnectSettles(r)
       \/ StopDisconnectSettles(r)
       \/ RestartDisconnectSettles(r)
       \/ InitTimeoutFires(r)
  \/ \E b \in BotIds :
       \/ LaunchSettles(b)
       \/ NewPageSettles(b)
       \/ SetUserAgentSettles(b) /\ ~bots'[b].loadFailed
       \/ LoadSessionSettles(b) /\ ~bots'[b].loadFailed
       \/ GotoSettles(b)
       \/ QrQuerySettles(b)
       \/ ScreenshotSettles(b)
       \/ ChatQuerySettles(b)
       \/ SaveSessionSettles(b) /\ ~bots'[b].saveFailed
       \/ SleepSettles(b)
       \/ ClientInitializeSettles(b)
       \/ PageShowsQr(b)
       \/ PageShowsChats(b)
       \/ ReadyEvent(b)
       \/ AuthFailureEvent(b)
       \/ DisconnectedEvent(b)
  \/ \E k \in RunIds : MessagesSettle(k)

SpecRegistry == Init /\ [][NextRegistry]_vars

\* The configurations of a session.
Both == [webhookUrl |-> TRUE, callbackUrl |-> TRUE]
WebhookOnly == [webhookUrl |-> TRUE, callbackUrl |-> FALSE]
CallbackOnly == [webhookUrl |-> FALSE, callbackUrl |-> TRUE]

\* Texts: "http://a", "https://b".
LinkA == Http \o <<":", "/", "/", "a">>
LinkB == Http \o <<"s", ":", "/", "/", "b">>

\* One session of the client-library class from its /start on: the events
\* of the client, incoming messages, link dispatch and notifications.
ClientMessages ==
  { [NoMsg EXCEPT !.id = "m1", !.from = "c1", !.body = LinkA \o <<" ">> \o LinkB],
    [NoMsg EXCEPT !.id = "m2", !.from = "c1", !.body = <<"h", "i">>],
    [NoMsg EXCEPT !.id = "m3", !.from = "status@broadcast", !.body = LinkA] }

NextClient ==
  \/ /\ nbots = 0
     /\ \E cfg \in {Both, WebhookOnly, CallbackOnly, NoCfg} : Start("u1", cfg)
  \/ \E b \in BotIds :
       \/ ClientInitializeSettles(b)
       \/ QrEvent(b)
       \/ QrEncodingSettles(b)
       \/ ReadyEvent(b)
       \/ AuthFailureEvent(b)
       \/ DisconnectedEvent(b)
       \/ \E m \in ClientMessages : MessageEvent(b, m)
  \/ \E k \in RunIds : ContactSettles(k) \/ PostSettles(k)
  \/ ImmediateRuns
  \/ \E i \in 1..MaxTrace : NotifySettles(i)
  \/ \E r \in ReqIds : InitTimeoutFires(r)

InitClient == Init /\ variant = "client"

SpecClient == InitClient /\ [][NextClient]_vars

\* One session of the client-library class that pairs and then receives one
\* message carrying two links, with both destinations or the webhook alone
\* configured: link dispatch and the notifications, every POST of which may
\* succeed or fail.
DispatchMessages ==
  { [NoMsg EXCEPT !.id = "m1", !.from = "c1", !.body = LinkA \o <<" ">> \o LinkB] }

NextDispatch ==
  \/ /\ nbots = 0
     /\ \E cfg \in {Both, WebhookOnly} : Start("u1", cfg)
  \/ \E b \in BotIds :
       \/ ClientInitializeSettles(b)
       \/ bots[b].token < MaxDispatchQr /\ QrEvent(b)
       \/ QrEncodingSettles(b)
       \/ ReadyEvent(b)
       \/ \E m \in DispatchMessages : MessageEvent(b, m)
  \/ \E k \in RunIds : ContactSettles(k) \/ PostSettles(k)
  \/ ImmediateRuns
  \/ \E i \in 1..MaxTrace : NotifySettles(i)

SpecDispatch == InitClient /\ [][NextDispatch]_vars

\* One session of the browser class from its /start on: the page, the
\* message elements it shows, the intake runs and link dispatch.  An
\* element without data-id and one whose only link is no http link are
\* among the elements.
BrowserMessages ==
  { [NoMsg EXCEPT !.id = "m1", !.hrefs = <<LinkA, LinkB>>],
    [NoMsg EXCEPT !.id = "m2", !.hrefs = << <<"m", "a", "i", "l", "t", "o", ":", "x">> >>],
    [NoMsg EXCEPT !.hrefs = <<LinkA>>] }

NextBrowser ==
  \/ /\ nbots = 0
     /\ \E cfg \in {WebhookOnly, NoCfg} : Start("u1", cfg)
  \/ \E b \in BotIds :
       \/ LaunchSettles(b)
       \/ NewPageSettles(b)
       \/ SetUserAgentSettles(b)
       \/ LoadSessionSettles(b)
       \/ GotoSettles(b)
       \/ QrQuerySettles(b)
       \/ ScreenshotSettles(b)
       \/ ChatQuerySettles(b)
       \/ SaveSessionSettles(b)
       \/ SleepSettles(b)
       \/ PageShowsQr(b)
       \/ PageShowsChats(b)
       \/ \E m \in BrowserMessages : PageShowsMessage(b, m)
       \/ ResponseEvent(b)
       \/ IntervalTick(b)
  \/ \E k \in RunIds :
       \/ MessagesSettle(k)
       \/ IdSettles(k)
       \/ LinksSettle(k)
       \/ SenderSettles(k)
       \/ PostSettles(k)
  \/ \E r \in ReqIds : InitTimeoutFires(r)

InitBrowser == Init /\ variant = "browser"

SpecBrowser == InitBrowser /\ [][NextBrowser]_vars

\* Shutdown: each tenant starts one session, an adapter may stop
\* answering, and SIGTERM or SIGINT arrives.  The session files load and
\* save without failure.
NextShutdown ==
  \/ \E u \in Users : ~Has(Cur, u) /\ Start(u, NoCfg)
  \/ \E b \in BotIds :
       \/ LaunchSettles(b)
       \/ NewPageSettles(b)
       \/ SetUserAgentSettles(b) /\ ~bots'[b].loadFailed
       \/ LoadSessionSettles(b) /\ ~bots'[b].loadFailed
       \/ GotoSettles(b)
       \/ QrQuerySettles(b)
       \/ ChatQuerySettles(b)
       \/ SaveSessionSettles(b) /\ ~bots'[b].saveFailed
       \/ SleepSettles(b)
       \/ ClientInitializeSettles(b)
       \/ PageShowsChats(b)
       \/ ReadyEvent(b)
       \/ AdapterHangs(b)
       \/ ShutdownDisconnectSettles(b)
  \/ \E k \in RunIds : MessagesSettle(k)
  \/ Signal
  \/ SignalSequential
  \/ ProcessCrashes

SpecShutdown == Init /\ [][NextShutdown]_vars

\* Message intake of one connected session, in either class, with a
\* webhookUrl: two messages with one link each; every read of the page, the
\* contact lookup and every POST may fail.
IntakeMessages ==
  { [NoMsg EXCEPT !.id = "m1", !.from = "c1", !.body = LinkA, !.hrefs = <<LinkA>>],
    [NoMsg EXCEPT !.id = "m2", !.from = "c2", !.body = LinkB, !.hrefs = <<LinkB>>] }

NextIntake ==
  \/ /\ nbots = 0
     /\ Start("u1", WebhookOnly)
  \/ \E b \in BotIds :
       \/ LaunchSettles(b)
       \/ NewPageSettles(b)
       \/ SetUserAgentSettles(b)
       \/ LoadSessionSettles(b)
       \/ GotoSettles(b)
       \/ QrQuerySettles(b)
       \/ ChatQuerySettles(b)
       \/ SaveSessionSettles(b)
       \/ SleepSettles(b)
       \/ PageShowsChats(b)
       \/ \E m \in IntakeMessages : PageShowsMessage(b, m)
       \/ ResponseEvent(b)
       \/ IntervalTick(b)
       \/ ClientInitializeSettles(b)
       \/ ReadyEvent(b)
       \/ \E m \in IntakeMessages : MessageEvent(b, m)
  \/ \E k \in RunIds :
       \/ MessagesSettle(k)
       \/ IdSettles(k)
       \/ LinksSettle(k)
       \/ SenderSettles(k)
       \/ ContactSettles(k)
       \/ PostSettles(k)

SpecIntake == Init /\ [][NextIntake]_vars

\* Teardown of one session, in either class: one /start of one tenant, at
\* any point of its initialization or authentication, and /stop requests
\* for the tenant, which may overlap.
NextTeardown ==
  \/ /\ nbots = 0
     /\ Start("u1", NoCfg)
  \/ Stop("u1")
  \/ \E r \in ReqIds :
       \/ StopDisconnectSettles(r)
       \/ InitTimeoutFires(r)
  \/ \E b \in BotIds :
       \/ LaunchSettles(b)
       \/ NewPageSettles(b)
       \/ SetUserAgentSettles(b)
       \/ LoadSessionSettles(b)
       \/ GotoSettles(b)
       \/ QrQuerySettles(b)
       \/ ScreenshotSettles(b)
       \/ ChatQuerySettles(b)
       \/ SaveSessionSettles(b)
       \/ SleepSettles(b)
       \/ ClientInitializeSettles(b)
       \/ PageShowsQr(b)
       \/ PageShowsChats(b)
       \/ ReadyEvent(b)
       \/ AuthFailureEvent(b)
       \/ DisconnectedEvent(b)
  \/ \E k \in RunIds : MessagesSettle(k)

SpecTeardown == Init /\ [][NextTeardown]_vars

\* Status notifications of one session with a callbackUrl alone, in either
\* class: its /start, its authentication, the events of its adapter, a
\* /stop, and the setImmediate callbacks.
NextNotify ==
  \/ /\ nbots = 0
     /\ Start("u1", CallbackOnly)
  \/ Stop("u1")
  \/ \E r \in ReqIds : StopDisconnectSettles(r)
  \/ \E b \in BotIds :
       \/ LaunchSettles(b)
       \/ NewPageSettles(b)
       \/ SetUserAgentSettles(b)
       \/ LoadSessionSettles(b)
       \/ GotoSettles(b)
       \/ QrQuerySettles(b)
       \/ ScreenshotSettles(b)
       \/ ChatQuerySettles(b)
       \/ SaveSessionSettles(b)
       \/ SleepSettles(b)
       \/ PageShowsQr(b)
       \/ PageShowsChats(b)
       \/ ClientInitializeSettles(b)
       \/ QrEvent(b)
       \/ QrEncodingSettles(b)
       \/ ReadyEvent(b)
       \/ AuthFailureEvent(b)
       \/ DisconnectedEvent(b)
  \/ \E k \in RunIds : MessagesSettle(k)
  \/ ImmediateRuns

SpecNotify == Init /\ [][NextNotify]_vars

\* Two tenants, in either class.  Tenant u2 starts a session without
\* destinations, connects and takes in a message.  Once it is connected and
\* its /start has answered, tenant u1 starts (or restarts) a session with a webhookUrl and is stopped,
\* with every event, error and timeout of its adapter and its own message,
\* whose POST may stay pending.  The credentials load and save without
\* failure.
NextTenants ==
  \/ /\ \A b \in BotIds : bots[b].userId # "u2"
     /\ Start("u2", NoCfg)
  \/ /\ \A b \in BotIds : bots[b].userId # "u1"
     /\ \E b \in BotIds : /\ bots[b].userId = "u2" /\ bots[b].ipc = "done"
                           /\ bots[b].status = "connected"
     /\ Start("u1", WebhookOnly) \/ Restart("u1", WebhookOnly)
  \/ /\ Has(Cur, "u1") /\ \A r \in ReqIds : reqs[r].kind # "stop"
     /\ Stop("u1")
  \/ \E r \in ReqIds :
       \/ StopDisconnectSettles(r)
       \/ reqs[r].userId = "u1" /\ InitTimeoutFires(r)
  \/ \E b \in BotIds :
       \/ LaunchSettles(b)
       \/ NewPageSettles(b)
       \/ SetUserAgentSettles(b) /\ ~bots'[b].loadFailed
       \/ LoadSessionSettles(b) /\ ~bots'[b].loadFailed
       \/ GotoSettles(b)
       \/ QrQuerySettles(b)
       \/ bots[b].userId = "u1" /\ ScreenshotSettles(b)
       \/ ChatQuerySettles(b)
       \/ SaveSessionSettles(b) /\ ~bots'[b].saveFailed
       \/ SleepSettles(b)
       \/ bots[b].userId = "u1" /\ bots[b].token < MaxDispatchQr /\ PageShowsQr(b)
       \/ PageShowsChats(b)
       \/ \E m \in IntakeMessages : m.id = "m1" /\ PageShowsMessage(b, m)
       \/ ClientInitializeSettles(b)
       \/ /\ bots[b].userId = "u1" /\ bots[b].token < MaxDispatchQr
          /\ bots[b].qrTasks = {} /\ QrEvent(b)
       \/ QrEncodingSettles(b)
       \/ ReadyEvent(b)
       \/ bots[b].userId = "u1" /\ AuthFailureEvent(b)
       \/ bots[b].userId = "u1" /\ DisconnectedEvent(b)
       \/ \E m \in IntakeMessages : m.id = "m1" /\ MessageEvent(b, m)
  \/ \E k \in RunIds :
       \/ MessagesSettle(k)
       \/ IdSettles(k)
       \/ LinksSettle(k)
       \/ SenderSettles(k)
       \/ ContactSettles(k)
       \/ PostSettles(k)

SpecTenants == Init /\ [][NextTenants]_vars

\* One session of the client-library class with a webhookUrl, from its
\* /start on, and the messages the client emits once it is ready, the one
\* from status@broadcast among them.
NextBroadcast ==
  \/ /\ nbots = 0
     /\ Start("u1", WebhookOnly)
  \/ \E b \in BotIds :
       \/ ClientInitializeSettles(b)
       \/ QrEvent(b)
       \/ QrEncodingSettles(b)
       \/ ReadyEvent(b)
       \/ DisconnectedEvent(b)
       \/ \E m \in ClientMessages : MessageEvent(b, m)
  \/ \E k \in RunIds : ContactSettles(k) \/ PostSettles(k)

SpecBroadcast == InitClient /\ [][NextBroadcast]_vars

\* The texts given to extractLinks: up to MaxParts pieces, each a scheme, a
\* letter or a white-space character, put one after the other.
ExtractParts ==
  { Http \o <<":", "/", "/">>, Http \o <<"s", ":", "/", "/">>, <<"a">>, <<" ">>, <<"\n">> }

RECURSIVE Flatten(_)
Flatten(ps) == IF ps = <<>> THEN <<>> ELSE Head(ps) \o Flatten(Tail(ps))

ExtractTexts ==
  { Flatten(ps) : ps \in UNION { [1..n -> ExtractParts] : n \in 0..MaxParts } }

\* One session of the client-library class, connected and with its /start
\* answered, receives one message with any of these texts as its body (and
\* as its id): handleMessage calls extractLinks on the body.
NextExtract ==
  \/ /\ nbots = 0
     /\ Start("u1", NoCfg)
  \/ \E b \in BotIds :
       \/ ClientInitializeSettles(b)
       \/ ReadyEvent(b)
       \/ /\ bots[b].processedMessages = {}
          /\ bots[b].status = "connected" /\ bots[b].ipc = "done"
          /\ \E text \in ExtractTexts :
               MessageEvent(b, [NoMsg EXCEPT !.id = text, !.from = "c1", !.body = text])

SpecExtract == InitClient /\ [][NextExtract]_vars

\* The 300 s of waitForConnection (155-158) pass while its loop turns: the
\* next test of the loop condition fails and line 206 throws.
ConnectionTimesOut(b) ==
  /\ MayTimeOut(b)
  /\ \/ /\ bots[b].ipc = "w_sleep"
        /\ Commit(SleepSettled(Cur, b, TRUE, "ok"))
     \/ /\ bots[b].ipc = "w_qr" /\ Query(b, "qr") = "throw"
        /\ Commit(QrQuerySettled(Cur, b, "throw", TRUE, "ok"))
     \/ /\ bots[b].ipc = "w_chat" /\ Query(b, "chats") = "throw"
        /\ Commit(ChatQuerySettled(Cur, b, "throw", TRUE, "ok"))

\* One /start of one tenant and the authentication that follows, in either
\* class.  Every adapter call that is awaited settles, timers fire, and
\* time passes the connection timeout while the loop of waitForConnection
\* turns; whether the phone ever pairs is up to the user.
NextConnect ==
  \/ /\ nbots = 0
     /\ Start("u1", NoCfg)
  \/ \E r \in ReqIds : InitTimeoutFires(r)
  \/ \E b \in BotIds :
       \/ LaunchSettles(b)
       \/ NewPageSettles(b)
       \/ SetUserAgentSettles(b)
       \/ LoadSessionSettles(b)
       \/ GotoSettles(b)
       \/ QrQuerySettles(b)
       \/ ScreenshotSettles(b)
       \/ ChatQuerySettles(b)
       \/ SaveSessionSettles(b)
       \/ SleepSettles(b)
       \/ ConnectionTimesOut(b)
       \/ ClientInitializeSettles(b)
       \/ QrEncodingSettles(b)
       \/ PageShowsQr(b)
       \/ PageShowsChats(b)
       \/ QrEvent(b)
       \/ ReadyEvent(b)
  \/ \E k \in RunIds : MessagesSettle(k)

SpecConnect ==
  /\ Init
  /\ [][NextConnect]_vars
  /\ WF_vars(\E r \in ReqIds : InitTimeoutFires(r))
  /\ \A b \in BotIds :
       /\ WF_vars(LaunchSettles(b))
       /\ WF_vars(NewPageSettles(b))
       /\ WF_vars(SetUserAgentSettles(b))
       /\ WF_vars(LoadSessionSettles(b))
       /\ WF_vars(GotoSettles(b))
       /\ WF_vars(QrQuerySettles(b))
       /\ WF_vars(ScreenshotSettles(b))
       /\ WF_vars(ChatQuerySettles(b))
       /\ WF_vars(SaveSessionSettles(b))
       /\ WF_vars(SleepSettles(b))
       /\ WF_vars(ClientInitializeSettles(b))
       /\ WF_vars(QrEncodingSettles(b))
       /\ SF_vars(ConnectionTimesOut(b))
  /\ \A k \in RunIds : WF_vars(MessagesSettle(k))

\* ============================================================ properties
Created == 1..nbots

IsDispatch(e) == e.ev = "dispatchLink"
IsLinkPost(e) == e.ev = "post" /\ e.type = "link_detected"

\* C1: for every tenant, at most one session object holds adapter resources
\* that were not released, whatever the interleaving of /start, /stop and
\* /restart for that tenant.
C1_OneLiveSessionPerTenant ==
  \A u \in Users :
    Cardinality({b \in Created : bots[b].userId = u /\ HoldsResources(bots[b])}) <= 1

\* C2: for every session and message id, at most one delivery of the id
\* enters the loop that dispatches the message's links.
C2_OneDispatchPerMessage ==
  \A i, j \in DOMAIN trace :
    (/\ i < j
     /\ IsDispatch(trace[i]) /\ trace[i].first
     /\ IsDispatch(trace[j]) /\ trace[j].first
     /\ trace[i].bot = trace[j].bot)
    => trace[i].msg # trace[j].msg

\* C3: a session stores a challenge (qrCode, qrCodeDataURL) only while its
\* status is qr_ready.
C3_ChallengeOnlyWhenQrReady ==
  \A b \in Created :
    (bots[b].qrCode # NULL \/ bots[b].qrCodeDataURL # NULL)
    => bots[b].status = "qr_ready"

\* C4: the SIGTERM/SIGINT handler is never left without a way to reach
\* process.exit: it has not thrown, and while it waits, it waits for a
\* disconnect that can still return.
C4_ShutdownCompletes ==
  /\ sd.pc # "rejected"
  /\ sd.pc = "awaiting" => \E b \in sd.pending : ~bots[b].hangs

\* C5: no message intake (handleMessage, checkForNewMessages) is suspended
\* on an outbound HTTP POST.
C5_DispatchNotAwaited ==
  \A k \in RunIds : runs[k].pc \notin {"post_webhook", "post_callback"}

\* C6: a failed POST of a link to the webhookUrl is followed by the POST of
\* the same link to the callbackUrl, when the session has one.
C6_DestinationsIndependent ==
  \A i \in DOMAIN trace :
    (/\ IsLinkPost(trace[i]) /\ trace[i].dest = "webhook"
     /\ trace[i].out = "failed"
     /\ bots[trace[i].bot].callbackUrl)
    => \E j \in DOMAIN trace :
         /\ j > i
         /\ IsLinkPost(trace[j]) /\ trace[j].dest = "callback"
         /\ trace[j].bot = trace[i].bot
         /\ trace[j].msg = trace[i].msg
         /\ trace[j].link = trace[i].link

\* C7: a step in which a POST fails leaves the status and the connected
\* flag of its session as they were and adds nothing to processedMessages
\* but what the caller adds after a dispatch that returned (line 264, the
\* browser class after the last link); after a failed POST of a link the
\* caller goes on as after a successful one: it dispatches the message's
\* next link, or returns when there is none.
FailsNow(i) == trace[i].out = "pending" /\ trace'[i].out = "failed"

AddedByCaller(i) ==
  IF /\ IsLinkPost(trace[i]) /\ variant = "browser"
     /\ Len(runs[trace[i].run].links) = 1
  THEN {trace[i].msg} ELSE {}

FailedDeliveryContained(i) ==
  LET e == trace[i]
      b == e.bot
      k == e.run
  IN  /\ bots'[b].status = bots[b].status
      /\ bots'[b].connected = bots[b].connected
      /\ bots'[b].processedMessages
           = bots[b].processedMessages \cup AddedByCaller(i)
      /\ IsLinkPost(e) =>
           IF Len(runs[k].links) > 1
           THEN /\ Len(trace') > Len(trace)
                /\ IsDispatch(trace'[Len(trace) + 1])
                /\ trace'[Len(trace) + 1].link = runs[k].links[2]
                /\ trace'[Len(trace) + 1].msg = e.msg
           ELSE variant = "client" => runs'[k] = NoRun

C7_FailedDeliveryContained ==
  [][\A i \in DOMAIN trace : FailsNow(i) => FailedDeliveryContained(i)]_vars

\* A POST of a link failed and the next link of the message was dispatched
\* after it.
C7_Witness ==
  \E i, j \in DOMAIN trace :
    /\ i < j
    /\ IsLinkPost(trace[i]) /\ trace[i].out = "failed"
    /\ IsDispatch(trace[j]) /\ ~trace[j].first
    /\ trace[j].msg = trace[i].msg /\ trace[j].link # trace[i].link

\* C8: when /start answers 200 for a tenant that had a registered session,
\* the registry holds the session this request created, and its status is
\* initializing or later.
C8_StartReplacesSession ==
  (response.kind = "start" /\ response.res = "200" /\ response.td # "none")
  => /\ whatsappBots[response.userId] = response.bot
     /\ bots[response.bot].status
          \in {"initializing", "connecting", "qr_ready", "connected"}

\* C9: /restart and /stop followed by /start, run from the same state with
\* the same outcome of the teardown (td) and of the initialization (ok),
\* leave the same registry entry, the same status of the registered session
\* and the same result.
\*  The initialization of a new session b to its end: client.initialize
\*  settles; in the browser class the page shows the chat list at once, or
\*  puppeteer.launch fails.
BrowserInitializeOk(s, b) ==
  LET s1 == LaunchSettled(s, b, TRUE, "ok")
      s2 == NewPageSettled(s1, b, TRUE, "ok")
      s3 == SetUserAgentSettled(s2, b, TRUE, "absent", "ok")
      s4 == GotoSettled(s3, b, TRUE, "ok")
      s5 == SetBot(s4, b, [s4.bots[b] EXCEPT !.adapter = "chats"])
      s6 == QrQuerySettled(s5, b, "none", FALSE, "ok")
      s7 == ChatQuerySettled(s6, b, "found", FALSE, "ok")
      s8 == SaveSessionSettled(s7, b, TRUE)
  IN  GotMessages(s8, FreeRun(s7), TRUE)

InitializeOutcome(s, b, ok) ==
  IF variant = "client" THEN ClientInitializeSettled(s, b, ok, "ok")
  ELSE IF ok THEN BrowserInitializeOk(s, b)
  ELSE LaunchSettled(s, b, FALSE, "ok")

RestartRun(s, r, u, td, ok) ==
  LET s1 == RestartEntry(s, r, u, NoCfg, td)
      s2 == IF s1.reqs[r].pc = "await_disconnect"
            THEN RestartAfterDisconnect(s1, r, td) ELSE s1
  IN  IF s2.reqs[r].pc = "await_initialize"
      THEN InitializeOutcome(s2, s2.reqs[r].bot, ok) ELSE s2

\*  /start is sent when /stop has answered 200.
StopThenStartRun(s, r, u, td, ok) ==
  LET s1 == StopEntry(s, r, u, td)
      s2 == IF s1.reqs[r].pc = "await_disconnect"
            THEN StopAfterDisconnect(s1, r, td) ELSE s1
      s3 == StartEntry([s2 EXCEPT !.response = NoResponse], r, u, NoCfg, "ok")
  IN  IF s2.response.res # "200" THEN s2
      ELSE InitializeOutcome(s3, s3.reqs[r].bot, ok)

Observed(s, u) ==
  [registered |-> Has(s, u),
   status |-> IF Has(s, u) THEN s.bots[s.whatsappBots[u]].status ELSE "none",
   res |-> s.response.res]

Quiet ==
  /\ \A r \in ReqIds : reqs[r].pc = "idle"
  /\ \A k \in RunIds : runs[k].pc = "free"
  /\ sd.pc = "idle"

C9_RestartIsStopThenStart ==
  (Quiet /\ Has(Cur, "u1") /\ nbots < MaxBots)
  => \A td \in Outs, ok \in BOOLEAN :
       Observed(RestartRun(Cur, 1, "u1", td, ok), "u1")
         = Observed(StopThenStartRun(Cur, 1, "u1", td, ok), "u1")

\* C10: no /start handler is suspended on initialize() while that
\* initialize() waits for the connection (waitForConnection) or for what
\* follows it.
C10_StartDoesNotAwaitConnection ==
  \A r \in ReqIds :
    (reqs[r].kind = "start" /\ reqs[r].pc = "await_initialize")
    => bots[reqs[r].bot].ipc
         \notin {"w_qr", "w_shot", "w_chat", "w_save", "w_sleep", "monitor"}

\* C11: when /stop has answered for a tenant, the answer is a success, the
\* registry has no entry for the tenant, /status reports disconnected for
\* it, and the session that was registered holds no adapter resources.
C11_StopRemovesSession ==
  response.kind = "stop"
  => /\ response.res = "200"
     /\ ~Has(Cur, response.userId)
     /\ StatusRoute(Cur, response.userId).status = "disconnected"
     /\ response.old # NoBot => ~HoldsResources(bots[response.old])

\* C12: a session stores one challenge at a time, the latest one once its
\* encoding is over, and the qr_code notifications each carry a challenge,
\* no two of them the same one.
IsQrPost(e) == e.ev = "post" /\ e.type = "qr_code"

OneChallengeStored(bot) ==
  (bot.qrCode # NULL /\ bot.qrCodeDataURL # NULL)
  => bot.qrCode[2] = bot.qrCodeDataURL[2]

LatestChallengeStored(bot) ==
  (bot.qrTasks = {} /\ bot.qrCodeDataURL # NULL)
  => bot.qrCodeDataURL = DataURL(bot.token)

OneNotificationPerChallenge ==
  \A i, j \in DOMAIN trace :
    (IsQrPost(trace[i]) /\ IsQrPost(trace[j]) /\ trace[i].bot = trace[j].bot)
    => /\ trace[i].qrCode # NULL
       /\ i # j => trace[i].qrCode # trace[j].qrCode

C12_ChallengeReplacedAndNotifiedOnce ==
  /\ \A b \in Created :
       OneChallengeStored(bots[b]) /\ LatestChallengeStored(bots[b])
  /\ OneNotificationPerChallenge

\* C13: a session on which disconnect() has resolved has status
\* disconnected, whatever continuation of its initialize(), of a
\* handleQRCode or of a message intake runs afterwards.
C13_StaysDisconnected ==
  \A b \in Created : bots[b].tornDown => bots[b].status = "disconnected"

PlatformReady(b) == bots[b].adapter \in {"chats", "ready"}

StartFailed(b) ==
  /\ bots[b].status = "error"
  /\ response.kind = "start" /\ response.bot = b /\ response.res = "500"

C15_ConnectionTimeoutFails ==
  \A b \in BotIds :
    (bots[b].status = "initializing") ~> (PlatformReady(b) \/ StartFailed(b))

\* C16: a step in which the intake of a message stops short of dispatching
\* it (a read of the page or the contact lookup threw, or the element is
\* skipped) leaves status, connected and processedMessages of the session
\* as they were and the listeners in place; checkForNewMessages goes on
\* with the next element of its list, and handleMessage returns.
IntakeStops(k) ==
  /\ runs'[k] # runs[k]
  /\ IF variant = "browser"
     THEN \/ runs[k].pc = "q_all" /\ runs'[k] = NoRun
          \/ runs[k].pc = "q_id" /\ runs'[k].pc # "q_links"
          \/ /\ runs[k].pc = "q_links" /\ runs'[k].pc # "q_sender"
             /\ runs[k].msg.id \notin bots'[runs[k].bot].processedMessages
     ELSE runs[k].pc = "q_contact" /\ runs'[k] = NoRun /\ trace' = trace

TakesNextMessage(k) ==
  runs'[k] = IF runs[k].queue = <<>> THEN NoRun
             ELSE [runs[k] EXCEPT !.msg = Head(runs[k].queue),
                                  !.queue = Tail(runs[k].queue),
                                  !.links = <<>>,
                                  !.pc = "q_id"]

IntakeErrorContained(k) ==
  LET b == runs[k].bot IN
  /\ bots'[b].status = bots[b].status
  /\ bots'[b].connected = bots[b].connected
  /\ bots'[b].processedMessages = bots[b].processedMessages
  /\ bots'[b].responseListener = bots[b].responseListener
  /\ bots[b].messageCheckInterval => bots'[b].messageCheckInterval
  /\ bots'[b].client = bots[b].client
  /\ variant = "browser" => TakesNextMessage(k)

C16_IntakeErrorContained ==
  [][\A k \in RunIds : IntakeStops(k) => IntakeErrorContained(k)]_vars

\* Browser class: an invocation dispatches the second element of the page
\* after it left the first one, which has an id, unprocessed.  Client-library
\* class: a message with a link was taken in and nothing was dispatched for
\* it, and another message is dispatched.
C16_Witness ==
  \E k \in RunIds :
    LET b == runs[k].bot IN
    /\ runs[k].pc = "post_webhook"
    /\ \A j \in RunIds \ {k} : runs[j].pc = "free"
    /\ IF variant = "browser"
       THEN /\ Len(bots[b].dom) = 2
            /\ runs[k].msg = bots[b].dom[2]
            /\ bots[b].dom[1].id \notin bots[b].processedMessages
       ELSE \E m \in IntakeMessages :
              /\ m.id # runs[k].msg.id
              /\ m.id \in bots[b].processedMessages
              /\ \A i \in DOMAIN trace : trace[i].msg # m.id

\* C17: once a message with links has been taken in by a session (its id is
\* recorded and no intake of it is in flight), the history holds one call of
\* dispatchLink for each of its links, in the order of the links.
LinksOf(m) ==
  IF variant = "client" THEN ExtractLinks(m.body) ELSE FilterHttp(m.hrefs)

DispatchedLinks(b, id) ==
  LET IsCall(e) == IsDispatch(e) /\ e.bot = b /\ e.msg = id
      calls == SelectSeq(trace, IsCall)
  IN  [i \in 1..Len(calls) |-> calls[i].link]

TakenIn(b, m) ==
  /\ m.id \in bots[b].processedMessages
  /\ \A k \in RunIds : ~(runs[k].bot = b /\ runs[k].msg.id = m.id)

C17_EveryLinkDispatchedOnce ==
  \A b \in Created, m \in IntakeMessages :
    TakenIn(b, m) => DispatchedLinks(b, m.id) = LinksOf(m)

\* C18: a session for which isConnected() answers true has status
\* connected.
C18_ConnectedOnlyWhenStatusConnected ==
  \A b \in Created : IsConnected(bots[b]) => bots[b].status = "connected"

\* C19: for every session, message, link and destination the history holds
\* at most one POST.
C19_AtMostOnePostPerEvent ==
  \A i, j \in DOMAIN trace :
    (/\ i < j
     /\ IsLinkPost(trace[i]) /\ IsLinkPost(trace[j])
     /\ trace[i].bot = trace[j].bot
     /\ trace[i].msg = trace[j].msg
     /\ trace[i].link = trace[j].link)
    => trace[i].dest # trace[j].dest

\* C20: a session whose client has signalled auth_failure, and on which no
\* disconnect() has been called, has status auth_failed, is the registered
\* session of its tenant, so that /status reports auth_failed, and has no
\* message intake in flight.
AuthFailureSignalled(b) == bots[b].adapter = "failed" /\ ~bots[b].tornDown

C20_AuthFailedUntilStopped ==
  \A b \in Created :
    AuthFailureSignalled(b)
    => /\ bots[b].status = "auth_failed"
       /\ whatsappBots[bots[b].userId] = b
       /\ StatusRoute(Cur, bots[b].userId).status = "auth_failed"
       /\ \A k \in RunIds : runs[k].bot # b

\* C21: every step that changes the status of a session with a callbackUrl
\* schedules, in the same step, one connection_status notification of that
\* session.
StatusNotifications(q, b) ==
  Cardinality({i \in DOMAIN q : q[i].bot = b /\ q[i].type = "connection_status"})

StatusChangeNotified(b) ==
  (bots'[b].callbackUrl /\ bots'[b].status # bots[b].status)
  => StatusNotifications(immediates', b) = StatusNotifications(immediates, b) + 1

C21_StatusChangeNotified == [][\A b \in BotIds : StatusChangeNotified(b)]_vars

\* C22: in the browser class, a failure of loadSession (a session file that
\* cannot be read or parsed, or a failing adapter call) leaves the status
\* and the registry as they are, sends no response and has initialize call
\* page.goto; a failure of saveSession leaves the registry as it is, sends
\* no response and has the session connected.
ContinuesAfter(s, b) ==
  /\ s.whatsappBots = whatsappBots
  /\ s.response = NoResponse
  /\ s.bots[b].status # "error"

C22_CredentialFailureNotFatal ==
  \A b \in Created :
    /\ bots[b].ipc = "setUserAgent"
       => LET s == SetUserAgentSettled(Cur, b, TRUE, "corrupt", "ok")
          IN  /\ ContinuesAfter(s, b)
              /\ s.bots[b].status = bots[b].status
              /\ s.bots[b].ipc = "goto"
    /\ bots[b].ipc = "loadSession"
       => LET s == LoadSessionSettled(Cur, b, FALSE)
          IN  /\ ContinuesAfter(s, b)
              /\ s.bots[b].status = bots[b].status
              /\ s.bots[b].ipc = "goto"
    /\ (bots[b].ipc = "w_save" /\ FreeRuns(Cur) # {})
       => LET s == SaveSessionSettled(Cur, b, FALSE)
          IN  /\ ContinuesAfter(s, b)
              /\ s.bots[b].status = "connected"
              /\ s.bots[b].connected

\* A session whose loadSession and saveSession both failed is connected and
\* its /start has answered 200.
C22_Witness ==
  \E b \in Created :
    /\ bots[b].loadFailed /\ bots[b].saveFailed
    /\ bots[b].status = "connected"
    /\ response.kind = "start" /\ response.bot = b /\ response.res = "200"

\* C23: every step changes the registry entry, the sessions, the requests
\* and the message intake of at most one tenant; and whenever one tenant's
\* session is in authentication or awaits the POST of a dispatch, the next
\* step of another tenant's message intake can be taken.
RunUser(k) == IF runs[k].bot = NoBot THEN "none" ELSE bots[runs[k].bot].userId

Touches(u) ==
  \/ whatsappBots'[u] # whatsappBots[u]
  \/ \E b \in BotIds :
       bots'[b] # bots[b] /\ u \in {bots[b].userId, bots'[b].userId}
  \/ \E r \in ReqIds :
       reqs'[r] # reqs[r] /\ u \in {reqs[r].userId, reqs'[r].userId}
  \/ \E k \in RunIds :
       runs'[k] # runs[k] /\ u \in {RunUser(k), RunUser(k)'}

Stuck(a) ==
  \/ bots[a].status \in {"initializing", "connecting", "qr_ready"}
  \/ \E k \in RunIds : runs[k].bot = a /\ runs[k].pc \in {"post_webhook", "post_callback"}

IntakeStep(b) ==
  \/ \E m \in IntakeMessages : MessageEvent(b, m)
  \/ \E k \in RunIds :
       /\ runs[k].bot = b
       /\ \/ MessagesSettle(k) \/ IdSettles(k) \/ LinksSettle(k)
          \/ SenderSettles(k) \/ ContactSettles(k) \/ PostSettles(k)

IntakePending(b) ==
  \/ Emitting(b) /\ bots[b].adapter = "ready" /\ FreeRuns(Cur) # {}
  \/ \E k \in RunIds : runs[k].bot = b /\ runs[k].pc # "free"

IntakeNotBlocked ==
  \A a, b \in Created :
    (/\ bots[a].userId # bots[b].userId
     /\ Stuck(a) /\ IntakePending(b)
     /\ ProcessRuns /\ Len(trace) + 2 <= MaxTrace)
    => ENABLED IntakeStep(b)

C23_TenantsIsolated ==
  /\ [][Cardinality({u \in Users : Touches(u)}) <= 1]_vars
  /\ []IntakeNotBlocked

\* A session's POST is pending, and another tenant's session has called
\* dispatchLink after that POST was issued.
C23_Witness ==
  \E i, j \in DOMAIN trace :
    /\ i < j
    /\ IsLinkPost(trace[i]) /\ trace[i].out = "pending"
    /\ IsDispatch(trace[j])
    /\ bots[trace[i].bot].userId # bots[trace[j].bot].userId
    /\ trace[j].msg \in bots[trace[j].bot].processedMessages

\* C24: extractLinks(text) returns, from left to right and keeping
\* duplicates, for every maximal run of non-white-space characters that
\* contains http:// or https:// followed by a further character of the run,
\* the part of the run from the first such occurrence to the end of the run;
\* it returns the empty sequence for a text without http:// and https://.
Scheme(text, i) ==
  IF At(text, i, Http \o <<"s", ":", "/", "/">>) THEN 8
  ELSE IF At(text, i, Http \o <<":", "/", "/">>) THEN 7
  ELSE 0

SameRun(text, i, j) == \A p \in i..j : ~IsSpace(text[p])

LastOfRun(text, i) ==
  CHOOSE j \in i..Len(text) :
    SameRun(text, i, j) /\ (j = Len(text) \/ IsSpace(text[j + 1]))

Candidate(text, i) ==
  /\ Scheme(text, i) > 0
  /\ i + Scheme(text, i) <= Len(text)
  /\ ~IsSpace(text[i + Scheme(text, i)])

LinkStarts(text) ==
  { i \in 1..Len(text) :
      /\ Candidate(text, i)
      /\ \A j \in 1..(i - 1) : ~(Candidate(text, j) /\ SameRun(text, j, i)) }

\* The parts of text from each index of S to the end of its run, in
\* increasing order of the index.
RECURSIVE RunsFrom(_, _)
RunsFrom(text, S) ==
  IF S = {} THEN <<>>
  ELSE LET i == CHOOSE x \in S : \A y \in S : x <= y
       IN  <<SubSeq(text, i, LastOfRun(text, i))>> \o RunsFrom(text, S \ {i})

ExtractedAs(Expected(_)) ==
  /\ \A k \in RunIds :
       runs[k].pc = "q_contact" => runs[k].links = Expected(runs[k].msg.body)
  /\ \A b \in Created : \A text \in bots[b].processedMessages :
       IF Expected(text) = <<>>
       THEN \A k \in RunIds : runs[k].pc = "free"
       ELSE \E k \in RunIds : runs[k].bot = b /\ runs[k].msg.body = text

LinksFromFirstScheme(text) == RunsFrom(text, LinkStarts(text))

NoScheme(text) == \A i \in 1..Len(text) : Scheme(text, i) = 0

C24_ExtractLinks ==
  /\ ExtractedAs(LinksFromFirstScheme)
  /\ \A b \in Created : \A text \in bots[b].processedMessages :
       NoScheme(text) => \A k \in RunIds : runs[k].pc = "free"

\* A text whose only link starts inside a run has been taken in.
C24_Witness ==
  \E k \in RunIds :
    /\ runs[k].pc = "q_contact"
    /\ Len(runs[k].links) = 1
    /\ \E i \in 2..Len(runs[k].msg.body) :
         /\ Candidate(runs[k].msg.body, i) /\ ~IsSpace(runs[k].msg.body[i - 1])
         /\ runs[k].links[1] = SubSeq(runs[k].msg.body, i, Len(runs[k].msg.body))

\* C24 as stated: the result is the sequence of the maximal runs of
\* non-white-space characters that begin with http:// or https://.
RunStarts(text) ==
  { i \in 1..Len(text) :
      /\ ~IsSpace(text[i])
      /\ i = 1 \/ IsSpace(text[i - 1])
      /\ Scheme(text, i) > 0 }

RunsWithScheme(text) == RunsFrom(text, RunStarts(text))

C24_MaximalRuns == ExtractedAs(RunsWithScheme)

\* C25: every change of a session's status follows the transition table: the
\* status starts at disconnected, qr_ready is entered only from connecting
\* or qr_ready, connected is entered only from connecting or qr_ready, and
\* a connected session does not go back to qr_ready.
EntersQrReady(b) ==
  bots'[b].status = "qr_ready" => bots[b].status \in {"connecting", "qr_ready"}

EntersConnected(b) ==
  bots'[b].status = "connected" /\ bots[b].status # "connected"
    => bots[b].status \in {"connecting", "qr_ready"}

C25_StatusFollowsTable ==
  /\ \A b \in BotIds : bots[b].status = "disconnected"
  /\ [][\A b \in BotIds : EntersQrReady(b) /\ EntersConnected(b)]_vars

\* C26: a message is taken in, and a link is dispatched, only while the
\* status of the session is connected: a step that adds an id to the
\* processed messages of a session, or calls its dispatchLink, starts in a
\* state in which the status of that session is connected.
TakesInMessage(b) == bots'[b].processedMessages # bots[b].processedMessages

CallsDispatchLink(b) ==
  \E i \in (Len(trace) + 1)..Len(trace') :
    IsDispatch(trace'[i]) /\ trace'[i].bot = b

C26_IntakeOnlyWhileConnected ==
  [][\A b \in BotIds :
       TakesInMessage(b) \/ CallsDispatchLink(b) => bots[b].status = "connected"]_vars

\* C27: (client-library class) what getQRCode() returns is null or the
\* encoding of the raw challenge received last, and never the encoding of
\* an older challenge than the raw challenge stored.
ReturnsLatestChallenge(bot) ==
  GetQRCode(bot) # NULL => GetQRCode(bot) = DataURL(bot.token)

NotOlderThanRaw(bot) ==
  (GetQRCode(bot) # NULL /\ bot.qrCode # NULL)
    => GetQRCode(bot)[2] >= bot.qrCode[2]

C27_ReturnsLatestChallenge ==
  \A b \in Created :
    ReturnsLatestChallenge(bots[b]) /\ NotOlderThanRaw(bots[b])

\* C28: (client-library class) a message from status@broadcast causes no
\* dispatch and leaves processedMessages as it was, whatever its body and
\* id: from every state, handleMessage of such a message changes nothing,
\* and no message from status@broadcast was ever taken in or dispatched.
BroadcastMessages ==
  { [m EXCEPT !.from = "status@broadcast"] : m \in ClientMessages }

BroadcastIgnored(b, m) ==
  LET s == HandleMessage(Cur, b, m) IN
  /\ s.bots[b].processedMessages = bots[b].processedMessages
  /\ s.runs = runs /\ s.trace = trace /\ s.immediates = immediates

C28_BroadcastIgnored ==
  /\ \A b \in Created, m \in BroadcastMessages : BroadcastIgnored(b, m)
  /\ \A b \in Created : "m3" \notin bots[b].processedMessages
  /\ \A i \in DOMAIN trace : IsDispatch(trace[i]) => trace[i].msg # "m3"
  /\ \A k \in RunIds : runs[k].msg.from # "status@broadcast"

\* A connected session that took in a message with a link and dispatched it
\* can be given the message from status@broadcast, which has a link too.
C28_Witness ==
  \E b \in Created :
    /\ "m1" \in bots[b].processedMessages
    /\ \E i \in DOMAIN trace : IsDispatch(trace[i]) /\ trace[i].msg = "m1"
    /\ \E m \in ClientMessages :
         /\ m.from = "status@broadcast" /\ Len(ExtractLinks(m.body)) > 0
         /\ ENABLED MessageEvent(b, m)

\* C29: every session that holds adapter resources is the session the
\* registry holds under its userId, and when /start answers 200 the registry
\* holds the session the answer reports on.
InRegistry(b) == whatsappBots[bots[b].userId] = b

StartSucceeded == response.kind = "start" /\ response.res = "200"

C29_RegistryConsistent ==
  /\ \A b \in Created : HoldsResources(bots[b]) => InRegistry(b)
  /\ StartSucceeded => InRegistry(response.bot)

\* C30: the cleanup of a /start request (its initTimeout callback, the
\* catch of its initialize and the catch of the handler) removes from the
\* registry only the session the request created, and disconnects no other
\* session.
TimerFires(r) == reqs[r].timer = "armed" /\ reqs'[r].timer = "fired"

InitializeFails(r) ==
  /\ reqs[r].pc = "await_initialize"
  /\ bots[reqs[r].bot].ipc # "failed" /\ bots'[reqs[r].bot].ipc = "failed"

CleanupSettles(r) ==
  reqs[r].pc = "await_cleanup" /\ reqs'[r].pc # "await_cleanup"

StartCleanupStep(r) ==
  /\ reqs[r].kind = "start"
  /\ TimerFires(r) \/ InitializeFails(r) \/ CleanupSettles(r)

OnlyOwnSession(r) ==
  LET u == reqs[r].userId
      b == reqs[r].bot
  IN  /\ whatsappBots'[u] # whatsappBots[u] => whatsappBots[u] = b
      /\ \A c \in BotIds \ {b} : bots'[c] = bots[c]

C30_CleanupRemovesOwnSession ==
  [][\A r \in ReqIds : StartCleanupStep(r) => OnlyOwnSession(r)]_vars

\* C31: a connection_status notification is sent with the status the
\* session had when notifyStatusChange scheduled it, and a qr_code
\* notification with the challenge stored when notifyQRCode scheduled it.
SendsNotification ==
  /\ immediates # <<>> /\ immediates' = Tail(immediates)
  /\ Len(trace') = Len(trace) + 1

SentAsScheduled ==
  LET im == Head(immediates)
      e == trace'[Len(trace')]
  IN  /\ im.type = "connection_status" => e.status = im.status
      /\ im.type = "qr_code" => e.qrCode = im.qrCode

C31_SentAsScheduled == [][SendsNotification => SentAsScheduled]_vars

====
